---- MODULE Spec2Model ----
(***************************************************************************)
(* A model of prguard: the PR classifier (internal/scanner), the blocklist *)
(* manager with its import/export reconciliation (internal/blocklist over  *)
(* internal/database), and the commands (internal/commands) with the       *)
(* configuration they load (internal/config).                              *)
(*                                                                         *)
(* Seven specifications share the module:                                  *)
(*   SpecScan    one ScanPR pass over a PR, an optional author record and  *)
(*               a filter configuration, one action per rule of the pass;  *)
(*   SpecRepo    ScanRepository over the PRs a data source lists, the      *)
(*               author lookups failing or not, ScanPR run for each PR;    *)
(*   Spec        the blocklist table and the Block / Unblock / IsBlocked / *)
(*               GetByUsername / ExportJSON / ImportJSON operations of the *)
(*               manager, importEntries one entry a step;                  *)
(*   SpecFaulty  Block, Unblock and ImportJSON over a storage whose        *)
(*               lookups and writes can fail during an import;             *)
(*   SpecCmd     the start of the import, scan, scan-all and close-pr      *)
(*               commands: flags, loadConfig, initDatabase, defaults;      *)
(*   SpecClosePR the loop of close-pr over its PR numbers;                 *)
(*   SpecScanCmd the scan command from ScanRepository to the confirmation  *)
(*               and the block and close actions.                          *)
(* Strings the code inspects character by character (file names, titles,  *)
(* bodies, phrases) are sequences of one-character strings.                *)
(***************************************************************************)
EXTENDS Integers, Sequences, FiniteSets, TLC

VARIABLES
    \* ---- scanner ----
    cfg,        \* config.FiltersConfig of the Scanner
    pr,         \* the *github.PullRequest passed to ScanPR
    user,       \* the *github.User passed to ScanPR, or NilUser
    now,        \* the wall clock read by time.Since, in hours
    result,     \* the *ScanResult under construction
    spc,        \* position inside ScanPR
    evaluated,  \* the rules ScanPR has evaluated so far, in order
    \* ---- repository scan ----
    ghClient,   \* the data source: the open PRs it holds, whether listing fails
    rpc,        \* position inside ScanRepository
    ri,         \* index of the next PR of the range loop
    results,    \* the *ScanResults under construction, or NilResults
    rerr,       \* the error ScanRepository returns
    lookups,    \* the GetUser calls made so far: login asked, whether it failed
    \* ---- blocklist ----
    blocklist,  \* the rows of the blocklist table
    pc,         \* position of the manager: idle / importing / returned
    entries,    \* the slice handed to importEntries
    idx,        \* index of the next entry of the range loop
    imported,   \* importEntries' counter
    err,        \* the error importEntries returns
    run,        \* 1 for an import, 2 when the same import is run again
    payload,    \* the entries as unmarshalled from the file being imported
    file,       \* the JSON file written by ExportJSON, or NoFile
    before,     \* the table when the current import began
    afterFirst, \* the table and count the first run of an import left
    exported,   \* the rows ExportJSON read when it wrote file
    ret,        \* what the Block, Unblock, IsBlocked or GetByUsername call just
                \* made returned; NoRet after any other step
    \* ---- commands ----
    cmd,        \* the command line: the command and its flags and arguments
    cfgFile,    \* the configuration file found and the environment it is read
                \* in, or NoConfigFile
    conf,       \* the *config.Config the command holds, or NoConfig
    flags,      \* the ActionFlags in effect for a scan
    cpc,        \* position of the command
    cerr,       \* the error the command returns
    log,        \* the operations on the configuration, the database, the
                \* blocklist and GitHub made so far, in order
    answer,     \* the line the operator typed at the confirmation prompt
    spamUsers,  \* the map collectSpamUsers built
    pending,    \* the keys of spamUsers the range loop has yet to visit
    ci          \* index of the next element of the close loop

scanVars  == <<cfg, pr, user, now, result, spc, evaluated>>
storeVars == <<blocklist, pc, entries, idx, imported, err, run, payload, file,
               before, afterFirst, exported, ret>>
repoVars  == <<ghClient, rpc, ri, results, rerr, lookups>>
cliVars   == <<cmd, cfgFile, conf, flags, cpc, cerr, log, answer, spamUsers,
               pending, ci>>
vars      == <<scanVars, repoVars, storeVars, cliVars>>

Nil == "nil"

\* a nil *github.User
NilUser == [nil |-> TRUE]
\* a nil *ScanResults
NilResults == [nil |-> TRUE]
\* no file at the export path
NoFile == [exists |-> FALSE, data |-> <<>>]
\* no manager call has just returned
NoRet == [op |-> "none"]
\* no first run recorded
NoRun == [table |-> {}, count |-> 0, err |-> Nil]

----------------------------------------------------------------------------
(* Strings as character sequences                                          *)

UpperToLower ==
    ("A" :> "a") @@ ("B" :> "b") @@ ("D" :> "d") @@ ("E" :> "e") @@
    ("M" :> "m") @@ ("R" :> "r") @@ ("U" :> "u") @@ ("Y" :> "y")

\* strings.ToLower
ToLower(s) ==
    [k \in 1..Len(s) |->
        IF s[k] \in DOMAIN UpperToLower THEN UpperToLower[s[k]] ELSE s[k]]

\* strings.HasPrefix
HasPrefix(s, prefix) ==
    /\ Len(s) >= Len(prefix)
    /\ SubSeq(s, 1, Len(prefix)) = prefix

\* strings.Contains
Contains(s, substr) ==
    \E k \in 0..(Len(s) - Len(substr)) : SubSeq(s, k + 1, k + Len(substr)) = substr

README == <<"r", "e", "a", "d", "m", "e">>

\* File names as GitHub's ListFiles reports them: paths from the repository root.
F_README_md      == <<"R", "E", "A", "D", "M", "E", ".", "m", "d">>
F_readme         == <<"r", "e", "a", "d", "m", "e">>
F_docs_README_md == <<"d", "/", "R", "E", "A", "D", "M", "E", ".", "m", "d">>
F_readme_a_go    == <<"r", "e", "a", "d", "m", "e", "/", "a">>
F_main_go        == <<"m", "a", "i", "n">>

T_Empty  == <<>>
T_BuyNow == <<"B", "U", "Y">>
T_Fix    == <<"f", "i", "x">>
P_buy    == <<"b", "u", "y">>
P_xb     == <<"x", " ", "b">>

----------------------------------------------------------------------------
(* config                                                                  *)

DefaultMinFiles       == 2
DefaultMinLines       == 10
DefaultAccountAgeDays == 7
HoursPerDay           == 24

\* config.IsReadmeFile
IsReadmeFile_basename(filename) ==
    LET slashes == {k \in 1..Len(filename) : filename[k] = "/"}
        start   == IF slashes = {} THEN 1
                   ELSE 1 + CHOOSE k \in slashes : \A j \in slashes : j <= k
    IN  HasPrefix(ToLower(SubSeq(filename, start, Len(filename))), README)

IsReadmeFile(filename) ==
    LET lower == ToLower(filename)
    IN  HasPrefix(lower, README)

----------------------------------------------------------------------------
(* scanner: the signals                                                    *)

\* Scanner.isWhitelisted
isWhitelisted(username) ==
    \E k \in 1..Len(cfg.Whitelist) : cfg.Whitelist[k] = username

\* Scanner.isSingleFileReadmeEdit
isSingleFileReadmeEdit(p) ==
    IF ~cfg.ReadmeOnlyBlock THEN FALSE
    ELSE IF p.FilesCount # 1 THEN FALSE
    ELSE \E k \in 1..Len(p.Files) : IsReadmeFile(p.Files[k])

\* time.Duration is a signed 64-bit count of nanoseconds; the model counts
\* hours, and DurationMax is the largest whole number of hours it holds
\* ((2^63 - 1) ns = 2562047.78 h).
DurationMax == 2562047

\* the product of two Durations: Go's int64 multiplication wraps around
WrapDuration(h) ==
    ((h + DurationMax + 1) % (2 * (DurationMax + 1))) - (DurationMax + 1)

\* time.Since / Time.Sub: the difference saturates at the ends of the range
Since(t) ==
    LET d == now - t
    IN  IF d > DurationMax THEN DurationMax
        ELSE IF d < -(DurationMax + 1) THEN -(DurationMax + 1)
        ELSE d

\* Scanner.isNewAccount
isNewAccount(u) ==
    LET threshold  == WrapDuration(cfg.AccountAgeDays * HoursPerDay)
        accountAge == Since(u.CreatedAt)
    IN  accountAge < threshold

\* isMinimalChanges requiring both thresholds to be missed
isMinimalChanges_and(p) ==
    LET totalLines == p.Additions + p.Deletions
    IN  p.FilesCount < cfg.MinFiles /\ totalLines < cfg.MinLines

\* Scanner.isMinimalChanges
isMinimalChanges(p) ==
    LET totalLines == p.Additions + p.Deletions
    IN  p.FilesCount < cfg.MinFiles \/ totalLines < cfg.MinLines

\* Scanner.containsSpamPhrases
containsSpamPhrases(p) ==
    IF Len(cfg.SpamPhrases) = 0 THEN FALSE
    ELSE LET text == ToLower(p.Title \o <<" ">> \o p.Body)
         IN  \E k \in 1..Len(cfg.SpamPhrases) :
                 Contains(text, ToLower(cfg.SpamPhrases[k]))

----------------------------------------------------------------------------
(* scanner: the inputs of one pass                                         *)

MaxFiles == 2

\* an account_age_days setting of more than 292 years
HugeAccountAgeDays == 106752

Authors   == {"bot", "alice"}
FileNames == {F_README_md, F_readme, F_docs_README_md, F_readme_a_go, F_main_go}
FileLists == {<<>>} \cup {<<f>> : f \in FileNames}
             \cup (IF MaxFiles >= 2 THEN {<<F_main_go, F_README_md>>} ELSE {})
             \cup (IF MaxFiles >= 3 THEN {<<F_main_go, F_readme, F_main_go>>} ELSE {})

Configs ==
    [MinFiles        : {1, DefaultMinFiles},
     MinLines        : {DefaultMinLines},
     AccountAgeDays  : {DefaultAccountAgeDays, HugeAccountAgeDays},
     ReadmeOnlyBlock : BOOLEAN,
     Whitelist       : {<<>>, <<"bot">>},
     SpamPhrases     : {<<>>, <<P_xb, P_buy>>}]

\* github.Client.GetPullRequest: FilesCount is len(files), Files their names.
PullRequests ==
    {[Number     |-> 1,
      Author     |-> a,
      Title      |-> t,
      Body       |-> b,
      FilesCount |-> Len(fs),
      Files      |-> fs,
      Additions  |-> ad,
      Deletions  |-> de] :
        a \in Authors, t \in {T_Fix, T_BuyNow}, b \in {T_Empty, T_BuyNow},
        fs \in FileLists, ad \in {1, 9}, de \in {0, 1}}

Clock == 1000

\* github.Client.GetUser, or nil when the lookup failed
Users(login) ==
    {NilUser} \cup [Login : {login}, CreatedAt : {Clock - 48, Clock - 168, Clock - 900}]

NoResult == [IsSpam |-> FALSE, IsUncertain |-> FALSE, Reasons |-> <<>>,
             Severity |-> "", RecommendAction |-> ""]

----------------------------------------------------------------------------
(* scanner: ScanPR, one action per rule                                    *)

\* ScanPR without the early return for whitelisted authors
ScanPR_Begin_noWhitelist ==
    /\ spc = "call"
    /\ result' = [IsSpam |-> FALSE, IsUncertain |-> FALSE, Reasons |-> <<>>,
                  Severity |-> "low", RecommendAction |-> ""]
    /\ spc' = "readme"
    /\ UNCHANGED <<cfg, pr, user, now, evaluated>>
    /\ UNCHANGED <<repoVars, storeVars, cliVars>>

\* ScanPR, lines 33-43: the fresh result and the whitelist check
ScanPR_Begin ==
    /\ spc = "call"
    /\ result' = [IsSpam |-> FALSE, IsUncertain |-> FALSE, Reasons |-> <<>>,
                  Severity |-> "low", RecommendAction |-> ""]
    /\ spc' = IF isWhitelisted(pr.Author) THEN "done" ELSE "readme"
    /\ UNCHANGED <<cfg, pr, user, now, evaluated>>
    /\ UNCHANGED <<repoVars, storeVars, cliVars>>

\* ScanPR, lines 45-50
ScanPR_Readme ==
    /\ spc = "readme"
    /\ result' = IF isSingleFileReadmeEdit(pr)
                 THEN [result EXCEPT !.IsSpam = TRUE,
                                     !.Reasons = Append(@, "Single-file README-only edit"),
                                     !.Severity = "high"]
                 ELSE result
    /\ evaluated' = Append(evaluated, "readme")
    /\ spc' = "account"
    /\ UNCHANGED <<cfg, pr, user, now>>
    /\ UNCHANGED <<repoVars, storeVars, cliVars>>

\* ScanPR with a new account promoted to spam
ScanPR_AccountAge_promote ==
    /\ spc = "account"
    /\ result' = IF user # NilUser /\ isNewAccount(user)
                 THEN [result EXCEPT !.IsSpam = TRUE,
                                     !.Reasons = Append(@, "Account created recently")]
                 ELSE result
    /\ evaluated' = Append(evaluated, "account")
    /\ spc' = "minimal"
    /\ UNCHANGED <<cfg, pr, user, now>>
    /\ UNCHANGED <<repoVars, storeVars, cliVars>>

\* ScanPR, lines 52-60
ScanPR_AccountAge ==
    /\ spc = "account"
    /\ result' = IF user # NilUser /\ isNewAccount(user)
                 THEN IF result.IsSpam
                      THEN [result EXCEPT !.Reasons = Append(@, "Account created recently")]
                      ELSE [result EXCEPT !.IsUncertain = TRUE,
                                          !.Reasons = Append(@, "Account created recently (suspicious but not definitive)")]
                 ELSE result
    /\ evaluated' = Append(evaluated, "account")
    /\ spc' = "minimal"
    /\ UNCHANGED <<cfg, pr, user, now>>
    /\ UNCHANGED <<repoVars, storeVars, cliVars>>

\* ScanPR with the minimal-changes reason put in front of the others
ScanPR_Minimal_prepend ==
    /\ spc = "minimal"
    /\ result' = IF isMinimalChanges(pr)
                 THEN IF result.IsSpam
                      THEN [result EXCEPT !.Reasons = <<"Minimal changes (below threshold)">> \o @]
                      ELSE [result EXCEPT !.IsUncertain = TRUE,
                                          !.Reasons = <<"Minimal changes (below threshold)">> \o @]
                 ELSE result
    /\ evaluated' = Append(evaluated, "minimal")
    /\ spc' = "phrases"
    /\ UNCHANGED <<cfg, pr, user, now>>
    /\ UNCHANGED <<repoVars, storeVars, cliVars>>

\* ScanPR, lines 62-70
ScanPR_Minimal ==
    /\ spc = "minimal"
    /\ result' = IF isMinimalChanges(pr)
                 THEN IF result.IsSpam
                      THEN [result EXCEPT !.Reasons = Append(@, "Minimal changes (below threshold)")]
                      ELSE [result EXCEPT !.IsUncertain = TRUE,
                                          !.Reasons = Append(@, "Minimal changes (below threshold)")]
                 ELSE result
    /\ evaluated' = Append(evaluated, "minimal")
    /\ spc' = "phrases"
    /\ UNCHANGED <<cfg, pr, user, now>>
    /\ UNCHANGED <<repoVars, storeVars, cliVars>>

\* ScanPR with the spam-phrase rule assigning severity medium
ScanPR_Phrases_medium ==
    /\ spc = "phrases"
    /\ result' = IF containsSpamPhrases(pr)
                 THEN [result EXCEPT !.IsSpam = TRUE,
                                     !.Reasons = Append(@, "Contains spam phrases"),
                                     !.Severity = "medium"]
                 ELSE result
    /\ evaluated' = Append(evaluated, "phrases")
    /\ spc' = "action"
    /\ UNCHANGED <<cfg, pr, user, now>>
    /\ UNCHANGED <<repoVars, storeVars, cliVars>>

\* ScanPR, lines 72-77
ScanPR_Phrases ==
    /\ spc = "phrases"
    /\ result' = IF containsSpamPhrases(pr)
                 THEN [result EXCEPT !.IsSpam = TRUE,
                                     !.Reasons = Append(@, "Contains spam phrases"),
                                     !.Severity = "high"]
                 ELSE result
    /\ evaluated' = Append(evaluated, "phrases")
    /\ spc' = "action"
    /\ UNCHANGED <<cfg, pr, user, now>>
    /\ UNCHANGED <<repoVars, storeVars, cliVars>>

\* ScanPR, lines 79-88
ScanPR_Action ==
    /\ spc = "action"
    /\ result' = [result EXCEPT !.RecommendAction =
                     IF result.IsSpam THEN "Block user and close PR"
                     ELSE IF result.IsUncertain THEN "Manual review recommended"
                     ELSE "No action needed"]
    /\ spc' = "done"
    /\ UNCHANGED <<cfg, pr, user, now, evaluated>>
    /\ UNCHANGED <<repoVars, storeVars, cliVars>>

----------------------------------------------------------------------------
(* scanner: ScanRepository                                                 *)

MaxPRs == 2

\* the open PRs of a repository, as GetPullRequests returns them
RepoKinds ==
    {[Number |-> 1, Author |-> a, Title |-> t, Body |-> T_Empty,
      FilesCount |-> Len(fs), Files |-> fs, Additions |-> ad, Deletions |-> 1] :
        a \in {"alice"}, t \in {T_Fix, T_BuyNow},
        fs \in {<<F_README_md>>, <<F_main_go, F_README_md>>}, ad \in {9}}
    \cup
    {[Number |-> 1, Author |-> "bot", Title |-> T_BuyNow, Body |-> T_Empty,
      FilesCount |-> 1, Files |-> <<F_README_md>>, Additions |-> 1, Deletions |-> 0]}

\* the orders in which the numbers 1..n can come
RECURSIVE Orders(_)
Orders(n) ==
    IF n = 0 THEN {<<>>}
    ELSE {SubSeq(o, 1, k) \o <<n>> \o SubSeq(o, k + 1, n - 1) :
              o \in Orders(n - 1), k \in 0..(n - 1)}

PRLists ==
    UNION {{[k \in 1..n |-> [kinds[k] EXCEPT !.Number = order[k]]] :
                kinds \in [1..n -> RepoKinds], order \in Orders(n)} : n \in 0..MaxPRs}

RepoConfigs ==
    [MinFiles        : {DefaultMinFiles},
     MinLines        : {DefaultMinLines},
     AccountAgeDays  : {DefaultAccountAgeDays},
     ReadmeOnlyBlock : {TRUE},
     Whitelist       : {<<>>, <<"bot">>},
     SpamPhrases     : {<<P_xb, P_buy>>}]

\* no repository scan under way
RepoIdle ==
    /\ ghClient = [prs |-> <<>>, fails |-> FALSE]
    /\ rpc = "idle"
    /\ ri = 1
    /\ results = NilResults
    /\ rerr = Nil
    /\ lookups = <<>>

\* ScanRepository, lines 160-163: GetPullRequests fails
ScanRepository_ListFails ==
    /\ rpc = "call"
    /\ ghClient.fails
    /\ results' = NilResults
    /\ rerr' = "failed to list pull requests"
    /\ rpc' = "returned"
    /\ UNCHANGED <<ghClient, ri, lookups>>
    /\ UNCHANGED <<scanVars, storeVars, cliVars>>

\* ScanRepository, lines 160-170: the PRs are listed, the results are empty
ScanRepository_List ==
    /\ rpc = "call"
    /\ ~ghClient.fails
    /\ results' = [Total |-> Len(ghClient.prs), Spam |-> <<>>, Uncertain |-> <<>>,
                   Clean |-> <<>>]
    /\ ri' = 1
    /\ rpc' = "loop"
    /\ UNCHANGED <<ghClient, rerr, lookups>>
    /\ UNCHANGED <<scanVars, storeVars, cliVars>>

\* ScanRepository giving up when an author lookup fails
ScanRepository_GetUser_abort ==
    /\ rpc = "loop"
    /\ ri <= Len(ghClient.prs)
    /\ \E u \in Users(ghClient.prs[ri].Author) :
          /\ lookups' = Append(lookups, [login |-> ghClient.prs[ri].Author,
                                         failed |-> (u = NilUser)])
          /\ IF u = NilUser
             THEN /\ rerr' = "failed to get user"
                  /\ results' = NilResults
                  /\ rpc' = "returned"
                  /\ UNCHANGED <<pr, user, result, spc, evaluated>>
             ELSE /\ pr' = ghClient.prs[ri]
                  /\ user' = u
                  /\ result' = NoResult
                  /\ evaluated' = <<>>
                  /\ spc' = "call"
                  /\ rpc' = "scan"
                  /\ UNCHANGED <<results, rerr>>
    /\ UNCHANGED <<ghClient, ri, cfg, now>>
    /\ UNCHANGED <<storeVars, cliVars>>

\* ScanRepository, lines 172-180: the author lookup (nil when it fails) and
\* the call of ScanPR
ScanRepository_GetUser ==
    /\ rpc = "loop"
    /\ ri <= Len(ghClient.prs)
    /\ \E u \in Users(ghClient.prs[ri].Author) :
          /\ lookups' = Append(lookups, [login |-> ghClient.prs[ri].Author,
                                         failed |-> (u = NilUser)])
          /\ user' = u
    /\ pr' = ghClient.prs[ri]
    /\ result' = NoResult
    /\ evaluated' = <<>>
    /\ spc' = "call"
    /\ rpc' = "scan"
    /\ UNCHANGED <<ghClient, ri, results, rerr, cfg, now>>
    /\ UNCHANGED <<storeVars, cliVars>>

\* the *ScanResult ScanPR returns: its PR and what the pass found
ScanResultOf(p, r) ==
    [PR |-> p.Number, IsSpam |-> r.IsSpam, IsUncertain |-> r.IsUncertain,
     Reasons |-> r.Reasons, Severity |-> r.Severity,
     RecommendAction |-> r.RecommendAction]

\* ScanRepository filing a result under every flag it carries
ScanRepository_Collect_noElse ==
    /\ rpc = "scan"
    /\ spc = "done"
    /\ LET scanResult == ScanResultOf(pr, result)
       IN  results' = [results EXCEPT
               !.Spam = IF scanResult.IsSpam THEN Append(@, scanResult) ELSE @,
               !.Uncertain = IF scanResult.IsUncertain THEN Append(@, scanResult) ELSE @,
               !.Clean = IF ~scanResult.IsSpam /\ ~scanResult.IsUncertain
                         THEN Append(@, scanResult) ELSE @]
    /\ ri' = ri + 1
    /\ rpc' = "loop"
    /\ UNCHANGED <<ghClient, rerr, lookups>>
    /\ UNCHANGED <<scanVars, storeVars, cliVars>>

\* ScanRepository, lines 182-188: the result goes to one collection
ScanRepository_Collect ==
    /\ rpc = "scan"
    /\ spc = "done"
    /\ LET scanResult == ScanResultOf(pr, result)
       IN  results' = IF scanResult.IsSpam
                      THEN [results EXCEPT !.Spam = Append(@, scanResult)]
                      ELSE IF scanResult.IsUncertain
                      THEN [results EXCEPT !.Uncertain = Append(@, scanResult)]
                      ELSE [results EXCEPT !.Clean = Append(@, scanResult)]
    /\ ri' = ri + 1
    /\ rpc' = "loop"
    /\ UNCHANGED <<ghClient, rerr, lookups>>
    /\ UNCHANGED <<scanVars, storeVars, cliVars>>

\* ScanRepository, lines 171 and 191: the loop is over
ScanRepository_Return ==
    /\ rpc = "loop"
    /\ ri > Len(ghClient.prs)
    /\ rerr' = Nil
    /\ rpc' = "returned"
    /\ UNCHANGED <<ghClient, ri, results, lookups>>
    /\ UNCHANGED <<scanVars, storeVars, cliVars>>

----------------------------------------------------------------------------
(* models: the blocklist entry                                             *)

SeverityLow    == "low"
SeverityMedium == "medium"
SeverityHigh   == "high"

SourceManual       == "manual"
SourceImported     == "imported"
SourceAutoDetected == "auto-detected"

\* the CHECK constraints of the blocklist table
Severities == {SeverityLow, SeverityMedium, SeverityHigh}
Sources    == {SourceManual, SourceImported, SourceAutoDetected}

\* time.Time values: whole seconds and the nanoseconds within the second
TimeNow   == [sec |-> 5, nsec |-> 3]
TimeOther == [sec |-> 7, nsec |-> 1]

\* t is after u
After(t, u) == t.sec > u.sec \/ (t.sec = u.sec /\ t.nsec > u.nsec)

Ids == {"id1", "id2"}

\* models.NewBlocklistEntry; id is the uuid drawn, t the clock read
NewBlocklistEntry(id, t, username, reason, evidenceURL, blockedBy, severity, source) ==
    [ID          |-> id,
     Username    |-> username,
     Reason      |-> reason,
     EvidenceURL |-> evidenceURL,
     Timestamp   |-> t,
     BlockedBy   |-> blockedBy,
     Severity    |-> severity,
     Source      |-> source,
     Metadata    |-> "{}"]

----------------------------------------------------------------------------
(* database: the blocklist table                                           *)

\* DB.GetEntry: the rows with this id (none, or one: id is the primary key)
GetEntry(table, id) == {r \in table : r.ID = id}

\* DB.AddEntry under a schema without the CHECK constraint on source
AddEntryOK_noSourceCheck(table, entry) ==
    /\ GetEntry(table, entry.ID) = {}
    /\ entry.Severity \in Severities

\* DB.AddEntry succeeds: primary key and CHECK constraints of the schema
AddEntryOK(table, entry) ==
    /\ GetEntry(table, entry.ID) = {}
    /\ entry.Severity \in Severities
    /\ entry.Source \in Sources

\* DB.AddEntry
AddEntry(table, entry) ==
    IF AddEntryOK(table, entry) THEN table \cup {entry} ELSE table

\* DB.UpdateEntry succeeds: the CHECK constraint on severity, which the
\* engine applies to the rows the UPDATE touches
UpdateEntryOK(table, entry) ==
    GetEntry(table, entry.ID) # {} => entry.Severity \in Severities

\* DB.IsBlocked: SELECT COUNT(*) ... WHERE username = ?, count > 0
IsBlocked(table, username) ==
    Cardinality({r \in table : r.Username = username}) > 0

\* DB.GetEntriesByUsername: the rows of a username (in no stated order)
GetEntriesByUsername(table, username) == {r \in table : r.Username = username}

\* a DELETE that stops after one row of the username
RemoveByUsername_oneRow(table, username) ==
    LET rows == {r \in table : r.Username = username}
    IN  IF rows = {} THEN table ELSE table \ {CHOOSE r \in rows : TRUE}

\* DB.RemoveByUsername: DELETE FROM blocklist WHERE username = ?
RemoveByUsername(table, username) == {r \in table : r.Username # username}

\* DB.UpdateEntry, the whole row replaced
UpdateEntry_replace(table, entry) ==
    IF UpdateEntryOK(table, entry)
    THEN {IF r.ID = entry.ID THEN entry ELSE r : r \in table}
    ELSE table

\* DB.UpdateEntry
UpdateEntry(table, entry) ==
    IF UpdateEntryOK(table, entry)
    THEN {IF r.ID = entry.ID
          THEN [r EXCEPT !.Reason      = entry.Reason,
                         !.EvidenceURL = entry.EvidenceURL,
                         !.Severity    = entry.Severity,
                         !.Metadata    = entry.Metadata]
          ELSE r : r \in table}
    ELSE table

\* DB.ListEntries: every row, ORDER BY timestamp DESC; rows of equal
\* timestamp come in an order the engine chooses. (The engine compares the
\* stored text of the timestamps; for the times of this model that is the
\* order of the instants.)
ListEntries(table) ==
    {o \in [1..Cardinality(table) -> table] :
        /\ \A j, k \in DOMAIN o : j # k => o[j] # o[k]
        /\ \A j, k \in DOMAIN o : j < k => ~After(o[k].Timestamp, o[j].Timestamp)}

----------------------------------------------------------------------------
(* blocklist: JSON export and import                                       *)

\* time.Time.MarshalJSON, without the fraction of a second (time.RFC3339)
MarshalTime_RFC3339(t) == <<t.sec, 0>>

\* time.Time.MarshalJSON: RFC 3339 with nanoseconds
MarshalTime(t) == <<t.sec, t.nsec>>

\* time.Time.UnmarshalJSON
UnmarshalTime(s) == [sec |-> s[1], nsec |-> s[2]]

\* json.Marshal of a models.BlocklistEntry: the object keyed by the json tags
MarshalEntry(e) ==
    [id           |-> e.ID,
     username     |-> e.Username,
     reason       |-> e.Reason,
     evidence_url |-> e.EvidenceURL,
     timestamp    |-> MarshalTime(e.Timestamp),
     blocked_by   |-> e.BlockedBy,
     severity     |-> e.Severity,
     source       |-> e.Source,
     metadata     |-> e.Metadata]

\* json.Unmarshal into a models.BlocklistEntry
UnmarshalEntry(j) ==
    [ID          |-> j.id,
     Username    |-> j.username,
     Reason      |-> j.reason,
     EvidenceURL |-> j.evidence_url,
     Timestamp   |-> UnmarshalTime(j.timestamp),
     BlockedBy   |-> j.blocked_by,
     Severity    |-> j.severity,
     Source      |-> j.source,
     Metadata    |-> j.metadata]

\* importEntries, the source payload's tag kept
TagImported_keep(entry) == entry

\* importEntries: entry.Source = models.SourceImported
TagImported(entry) == [entry EXCEPT !.Source = SourceImported]

\* shouldUpdate, updating whenever the severities differ
shouldUpdate_ne(existing, new) == new.Severity # existing.Severity

\* shouldUpdate letting every imported entry overwrite the stored one
shouldUpdate_always(existing, new) == new.Severity \in Severities

\* shouldUpdate, with >= for >
shouldUpdate_ge(existing, new) ==
    LET severityMap(s) == CASE s = SeverityLow    -> 1
                            [] s = SeverityMedium -> 2
                            [] s = SeverityHigh   -> 3
                            [] OTHER              -> 0
    IN  severityMap(new.Severity) >= severityMap(existing.Severity)

\* shouldUpdate
shouldUpdate(existing, new) ==
    LET severityMap(s) == CASE s = SeverityLow    -> 1
                            [] s = SeverityMedium -> 2
                            [] s = SeverityHigh   -> 3
                            [] OTHER              -> 0
    IN  severityMap(new.Severity) > severityMap(existing.Severity)

----------------------------------------------------------------------------
(* blocklist: the inputs                                                   *)

MaxBatch == 2

\* entries a JSON file from elsewhere may carry: the severity is any text,
\* valid or not
ForeignEntries ==
    [ID          : Ids,
     Username    : {"mallory"},
     Reason      : {"r2"},
     EvidenceURL : {"e2"},
     Timestamp   : {TimeOther},
     BlockedBy   : {"org"},
     Severity    : Severities \cup {"critical"},
     Source      : {SourceManual},
     Metadata    : {"m2"}]

RECURSIVE SeqsUpTo(_, _)
SeqsUpTo(S, n) ==
    IF n = 0 THEN {<<>>}
    ELSE LET shorter == SeqsUpTo(S, n - 1)
         IN  shorter \cup {Append(q, x) : q \in {p \in shorter : Len(p) = n - 1}, x \in S}

Batches == SeqsUpTo(ForeignEntries, MaxBatch)

----------------------------------------------------------------------------
(* blocklist: the manager's operations                                     *)

\* Manager.Block
Block_merge ==
    /\ pc = "idle"
    /\ ~file.exists
    /\ \E id \in Ids, severity \in Severities \cup {"critical"},
          source \in {SourceManual, SourceAutoDetected, "bogus"} :
         /\ GetEntry(blocklist, id) = {}
         /\ LET entry == NewBlocklistEntry(id, TimeNow, "alice", "r1", "e1",
                                           "admin", severity, source)
                held  == GetEntriesByUsername(blocklist, "alice")
                ok    == IF held = {} THEN AddEntryOK(blocklist, entry)
                         ELSE severity \in Severities
            IN  /\ blocklist' =
                       IF held = {} THEN AddEntry(blocklist, entry)
                       ELSE IF ok
                       THEN {IF r \in held THEN [r EXCEPT !.Severity = severity] ELSE r :
                                r \in blocklist}
                       ELSE blocklist
                /\ ret' = [op |-> "Block", username |-> "alice", severity |-> severity,
                           source |-> source,
                           id |-> IF ok THEN id ELSE "",
                           err |-> IF ok THEN Nil ELSE "failed to add blocklist entry"]
    /\ UNCHANGED <<pc, entries, idx, imported, err, run, payload, file,
                   before, afterFirst, exported>>
    /\ UNCHANGED <<scanVars, repoVars, cliVars>>

\* Manager.Block: a new entry (fresh id, the time of the call) is inserted;
\* the entry, or the error of the insert, is returned
Block ==
    /\ pc = "idle"
    /\ ~file.exists
    /\ \E id \in Ids, severity \in Severities \cup {"critical"},
          source \in {SourceManual, SourceAutoDetected, "bogus"} :
         /\ GetEntry(blocklist, id) = {}
         /\ LET entry == NewBlocklistEntry(id, TimeNow, "alice", "r1", "e1",
                                           "admin", severity, source)
                ok    == AddEntryOK(blocklist, entry)
            IN  /\ blocklist' = AddEntry(blocklist, entry)
                /\ ret' = [op |-> "Block", username |-> "alice", severity |-> severity,
                           source |-> source,
                           id |-> IF ok THEN id ELSE "",
                           err |-> IF ok THEN Nil ELSE "failed to add blocklist entry"]
    /\ UNCHANGED <<pc, entries, idx, imported, err, run, payload, file,
                   before, afterFirst, exported>>
    /\ UNCHANGED <<scanVars, repoVars, cliVars>>

\* the usernames the commands are given
Usernames == {"alice", "mallory", "carol"}

\* Manager.Unblock
Unblock ==
    /\ pc = "idle"
    /\ ~file.exists
    /\ \E username \in Usernames :
         /\ blocklist' = RemoveByUsername(blocklist, username)
         /\ ret' = [op |-> "Unblock", username |-> username, err |-> Nil,
                    \* the rows the DELETE affected (the sql.Result, which the
                    \* code discards)
                    removed |-> Cardinality(blocklist) -
                                Cardinality(RemoveByUsername(blocklist, username))]
    /\ UNCHANGED <<pc, entries, idx, imported, err, run, payload, file,
                   before, afterFirst, exported>>
    /\ UNCHANGED <<scanVars, repoVars, cliVars>>

\* Manager.IsBlocked
Manager_IsBlocked ==
    /\ pc = "idle"
    /\ ~file.exists
    /\ \E username \in Usernames :
         ret' = [op |-> "IsBlocked", username |-> username,
                 blocked |-> IsBlocked(blocklist, username), err |-> Nil]
    /\ UNCHANGED <<blocklist, pc, entries, idx, imported, err, run, payload, file,
                   before, afterFirst, exported>>
    /\ UNCHANGED <<scanVars, repoVars, cliVars>>

\* Manager.GetByUsername
Manager_GetByUsername ==
    /\ pc = "idle"
    /\ ~file.exists
    /\ \E username \in Usernames :
         ret' = [op |-> "GetByUsername", username |-> username,
                 rows |-> GetEntriesByUsername(blocklist, username), err |-> Nil]
    /\ UNCHANGED <<blocklist, pc, entries, idx, imported, err, run, payload, file,
                   before, afterFirst, exported>>
    /\ UNCHANGED <<scanVars, repoVars, cliVars>>

\* Manager.ExportJSON. While the exported file is on disk the model follows
\* what becomes of it (imported here, imported into a new database, removed)
\* and no other command.
ExportJSON ==
    /\ pc = "idle"
    /\ ~file.exists
    /\ \E rows \in ListEntries(blocklist) :
         file' = [exists |-> TRUE,
                  data   |-> [k \in DOMAIN rows |-> MarshalEntry(rows[k])]]
    /\ exported' = blocklist
    /\ ret' = NoRet
    /\ UNCHANGED <<blocklist, pc, entries, idx, imported, err, run, payload,
                   before, afterFirst>>
    /\ UNCHANGED <<scanVars, repoVars, cliVars>>

\* NewSQLiteDB on a path that holds no database yet: an empty table
NewSQLiteDB ==
    /\ pc = "idle"
    /\ file.exists
    /\ blocklist # {}
    /\ blocklist' = {}
    /\ ret' = NoRet
    /\ UNCHANGED <<pc, entries, idx, imported, err, run, payload, file,
                   before, afterFirst, exported>>
    /\ UNCHANGED <<scanVars, repoVars, cliVars>>

\* the exported file is removed
RemoveFile ==
    /\ pc = "idle"
    /\ file.exists
    /\ file' = NoFile
    /\ exported' = {}
    /\ ret' = NoRet
    /\ UNCHANGED <<blocklist, pc, entries, idx, imported, err, run, payload,
                   before, afterFirst>>
    /\ UNCHANGED <<scanVars, repoVars, cliVars>>

\* importEntries is entered with the unmarshalled entries
EnterImport(parsed) ==
    /\ payload' = parsed
    /\ entries' = parsed
    /\ idx' = 1
    /\ imported' = 0
    /\ err' = Nil
    /\ run' = 1
    /\ before' = blocklist
    /\ afterFirst' = NoRun
    /\ pc' = "importing"
    /\ ret' = NoRet
    /\ UNCHANGED <<blocklist, file, exported>>

\* Manager.ImportJSON on a file from elsewhere
ImportJSON_Foreign ==
    /\ pc = "idle"
    /\ ~file.exists
    /\ \E parsed \in Batches : EnterImport(parsed)
    /\ UNCHANGED <<scanVars, repoVars, cliVars>>

\* Manager.ImportJSON on the file ExportJSON wrote
ImportJSON_Exported ==
    /\ pc = "idle"
    /\ file.exists
    /\ EnterImport([k \in DOMAIN file.data |-> UnmarshalEntry(file.data[k])])
    /\ UNCHANGED <<scanVars, repoVars, cliVars>>

\* importEntries passing over an entry whose insert or update fails
importEntries_Step_skipFailed ==
    /\ pc = "importing"
    /\ idx <= Len(entries)
    /\ LET entry    == entries[idx]
           existing == GetEntry(blocklist, entry.ID)
       IN  IF existing # {}
           THEN /\ IF shouldUpdate(CHOOSE r \in existing : TRUE, entry)
                   THEN IF UpdateEntryOK(blocklist, entry)
                        THEN /\ blocklist' = UpdateEntry(blocklist, entry)
                             /\ imported' = imported + 1
                             /\ idx' = idx + 1
                             /\ UNCHANGED <<pc, err>>
                        ELSE /\ idx' = idx + 1
                             /\ UNCHANGED <<blocklist, imported, pc, err>>
                   ELSE /\ idx' = idx + 1
                        /\ UNCHANGED <<blocklist, imported, pc, err>>
                /\ UNCHANGED entries
           ELSE LET tagged == TagImported(entry)
                IN  /\ entries' = [entries EXCEPT ![idx] = tagged]
                    /\ IF AddEntryOK(blocklist, tagged)
                       THEN /\ blocklist' = AddEntry(blocklist, tagged)
                            /\ imported' = imported + 1
                            /\ idx' = idx + 1
                            /\ UNCHANGED <<pc, err>>
                       ELSE /\ idx' = idx + 1
                            /\ UNCHANGED <<blocklist, imported, pc, err>>
    /\ UNCHANGED <<run, payload, file, before, afterFirst, exported, ret>>
    /\ UNCHANGED <<scanVars, repoVars, cliVars>>

\* importEntries: one iteration of the range loop
importEntries_Step ==
    /\ pc = "importing"
    /\ idx <= Len(entries)
    /\ LET entry    == entries[idx]
           existing == GetEntry(blocklist, entry.ID)
       IN  IF existing # {}
           THEN /\ IF shouldUpdate(CHOOSE r \in existing : TRUE, entry)
                   THEN IF UpdateEntryOK(blocklist, entry)
                        THEN /\ blocklist' = UpdateEntry(blocklist, entry)
                             /\ imported' = imported + 1
                             /\ idx' = idx + 1
                             /\ UNCHANGED <<pc, err>>
                        ELSE /\ err' = "failed to update entry"
                             /\ pc' = "returned"
                             /\ UNCHANGED <<blocklist, imported, idx>>
                   ELSE /\ idx' = idx + 1
                        /\ UNCHANGED <<blocklist, imported, pc, err>>
                /\ UNCHANGED entries
           ELSE LET tagged == TagImported(entry)
                IN  /\ entries' = [entries EXCEPT ![idx] = tagged]
                    /\ IF AddEntryOK(blocklist, tagged)
                       THEN /\ blocklist' = AddEntry(blocklist, tagged)
                            /\ imported' = imported + 1
                            /\ idx' = idx + 1
                            /\ UNCHANGED <<pc, err>>
                       ELSE /\ err' = "failed to add entry"
                            /\ pc' = "returned"
                            /\ UNCHANGED <<blocklist, imported, idx>>
    /\ UNCHANGED <<run, payload, file, before, afterFirst, exported, ret>>
    /\ UNCHANGED <<scanVars, repoVars, cliVars>>

\* importEntries: the loop is over, return imported, nil
importEntries_Return ==
    /\ pc = "importing"
    /\ idx > Len(entries)
    /\ pc' = "returned"
    /\ UNCHANGED <<blocklist, entries, idx, imported, err, run, payload, file,
                   before, afterFirst, exported, ret>>
    /\ UNCHANGED <<scanVars, repoVars, cliVars>>

\* the same import is run a second time, right after the first
ImportAgain ==
    /\ pc = "returned"
    /\ run = 1
    /\ afterFirst' = [table |-> blocklist, count |-> imported, err |-> err]
    /\ run' = 2
    /\ entries' = payload
    /\ idx' = 1
    /\ imported' = 0
    /\ err' = Nil
    /\ before' = blocklist
    /\ pc' = "importing"
    /\ UNCHANGED <<blocklist, payload, file, exported, ret>>
    /\ UNCHANGED <<scanVars, repoVars, cliVars>>

\* the import command has reported its count and exits
ImportDone ==
    /\ pc = "returned"
    /\ pc' = "idle"
    /\ entries' = <<>>
    /\ payload' = <<>>
    /\ idx' = 1
    /\ imported' = 0
    /\ err' = Nil
    /\ run' = 1
    /\ before' = {}
    /\ afterFirst' = NoRun
    /\ UNCHANGED <<blocklist, file, exported, ret>>
    /\ UNCHANGED <<scanVars, repoVars, cliVars>>

\* importEntries: the lookup of the entry's id fails (a storage error)
importEntries_LookupFails ==
    /\ pc = "importing"
    /\ idx <= Len(entries)
    /\ err' = "failed to check for existing entry"
    /\ pc' = "returned"
    /\ UNCHANGED <<blocklist, entries, idx, imported, run, payload, file,
                   before, afterFirst, exported, ret>>
    /\ UNCHANGED <<scanVars, repoVars, cliVars>>

\* importEntries undoing, when a write fails, what the earlier entries wrote
importEntries_WriteFails_rollback ==
    /\ pc = "importing"
    /\ idx <= Len(entries)
    /\ LET entry    == entries[idx]
           existing == GetEntry(blocklist, entry.ID)
       IN  IF existing # {}
           THEN /\ shouldUpdate(CHOOSE r \in existing : TRUE, entry)
                /\ err' = "failed to update entry"
                /\ UNCHANGED entries
           ELSE /\ entries' = [entries EXCEPT ![idx] = TagImported(entry)]
                /\ err' = "failed to add entry"
    /\ pc' = "returned"
    /\ blocklist' = before
    /\ imported' = 0
    /\ UNCHANGED <<idx, run, payload, file, before, afterFirst, exported, ret>>
    /\ UNCHANGED <<scanVars, repoVars, cliVars>>

\* importEntries: the lookup succeeds and the write the iteration makes (the
\* update of a stored entry, the insert of a new one) fails on a storage error
importEntries_WriteFails ==
    /\ pc = "importing"
    /\ idx <= Len(entries)
    /\ LET entry    == entries[idx]
           existing == GetEntry(blocklist, entry.ID)
       IN  IF existing # {}
           THEN /\ shouldUpdate(CHOOSE r \in existing : TRUE, entry)
                /\ err' = "failed to update entry"
                /\ UNCHANGED entries
           ELSE /\ entries' = [entries EXCEPT ![idx] = TagImported(entry)]
                /\ err' = "failed to add entry"
    /\ pc' = "returned"
    /\ UNCHANGED <<blocklist, idx, imported, run, payload, file,
                   before, afterFirst, exported, ret>>
    /\ UNCHANGED <<scanVars, repoVars, cliVars>>

----------------------------------------------------------------------------
(* commands: the command line and the configuration                        *)

\* a nil error of a command; an error is the chain of messages %w wrapped
NoError == <<>>
\* no configuration loaded
NoConfig == [loaded |-> FALSE]
\* no config.yaml at any of the places FindConfigPath looks
NoConfigFile == [found |-> FALSE]
\* the ActionFlags not built yet
NoFlags == [built |-> FALSE]
\* an empty map of spam users
NoSpamUsers == [u \in {} |-> [firstPR |-> 0]]

\* a command line with no flag given
NoCommand ==
    [name |-> "", file |-> "", url |-> "", autoClose |-> FALSE, autoBlock |-> FALSE,
     githubBlock |-> FALSE, repo |-> <<>>, prNumbers |-> <<>>, addLabel |-> FALSE]

\* no command under way
CmdIdle ==
    /\ cmd = NoCommand
    /\ cfgFile = NoConfigFile
    /\ conf = NoConfig
    /\ flags = NoFlags
    /\ cpc = "idle"
    /\ cerr = NoError
    /\ log = <<>>
    /\ answer = ""
    /\ spamUsers = NoSpamUsers
    /\ pending = {}
    /\ ci = 1

\* an operation on the configuration file, the database, the blocklist or
\* GitHub, with its outcome
Op(op, username, number, ok) == [op |-> op, user |-> username, pr |-> number, ok |-> ok]

R_acme_site == <<"a", "c", "m", "e", "/", "s", "i", "t", "e">>
R_acmesite  == <<"a", "c", "m", "e", "s", "i", "t", "e">>

\* parseRepo: split at the first slash
parseRepo(repo) ==
    LET slashes == {i \in 1..Len(repo) : repo[i] = "/"}
    IN  IF slashes = {}
        THEN [owner |-> <<>>, name |-> <<>>,
              err |-> "invalid repository format, expected owner/repo"]
        ELSE LET i == CHOOSE k \in slashes : \A j \in slashes : k <= j
             IN  [owner |-> SubSeq(repo, 1, i - 1),
                  name  |-> SubSeq(repo, i + 1, Len(repo)),
                  err   |-> Nil]

DefaultDatabasePath  == "~/.local/prguard/prguard.db"
FallbackDatabasePath == "./prguard.db"

\* yaml.Unmarshal into a zero Config: a key the file leaves out keeps the
\* zero value of its field
yamlUnmarshal(doc) ==
    [GitHub   |-> [Token |-> doc.token, Org |-> doc.org, User |-> doc.user],
     Database |-> [Type |-> doc.database_type, Path |-> doc.database_path,
                   URL |-> doc.database_url],
     Filters  |-> [MinFiles        |-> doc.min_files,
                   MinLines        |-> 0,
                   AccountAgeDays  |-> 0,
                   ReadmeOnlyBlock |-> (doc.readme_only_block = "true")],
     Actions  |-> [ClosePRs     |-> (doc.close_prs = "true"),
                   BlockUsers   |-> (doc.block_users = "true"),
                   AddSpamLabel |-> (doc.add_spam_label = "true")],
     Repositories |-> doc.repositories]

\* applyEnvOverrides: a variable that is set and not empty replaces the field
applyEnvOverrides(config, env) ==
    IF env.PRGUARD_DATABASE_PATH # ""
    THEN [config EXCEPT !.Database.Path = env.PRGUARD_DATABASE_PATH]
    ELSE config

\* Config.Validate: the first requirement the configuration misses, or Nil
Validate(c) ==
    IF c.GitHub.Token = "" THEN "github.token is required"
    ELSE IF c.GitHub.Org = "" /\ c.GitHub.User = ""
    THEN "either github.org or github.user must be specified"
    ELSE IF c.Database.Type = "" THEN "database.type is required"
    ELSE IF c.Database.Type # "sqlite" /\ c.Database.Type # "turso"
    THEN "database.type must be 'sqlite' or 'turso'"
    ELSE IF c.Database.Type = "sqlite" /\ c.Database.Path = ""
    THEN "database.path is required for sqlite"
    ELSE IF c.Database.Type = "turso" /\ c.Database.URL = ""
    THEN "database.url is required for turso"
    ELSE Nil

\* Config.SetDefaults; home tells whether os.UserHomeDir found the directory
SetDefaults(c, home) ==
    [c EXCEPT
        !.Filters.MinFiles       = IF @ = 0 THEN DefaultMinFiles ELSE @,
        !.Filters.MinLines       = IF @ = 0 THEN DefaultMinLines ELSE @,
        !.Filters.AccountAgeDays = IF @ = 0 THEN DefaultAccountAgeDays ELSE @,
        !.Database.Path = IF c.Database.Type = "sqlite" /\ @ = ""
                          THEN IF home THEN DefaultDatabasePath ELSE FallbackDatabasePath
                          ELSE @]

\* config.Load: find and read the file, parse it, apply the environment,
\* validate
Load(path) ==
    IF path = NoConfigFile
    THEN [config |-> NoConfig,
          err |-> <<"config file not found in any standard location">>]
    ELSE LET config == applyEnvOverrides(yamlUnmarshal(path.doc), path.env)
             v      == Validate(config)
         IN  IF v # Nil
             THEN [config |-> NoConfig, err |-> <<"invalid configuration", v>>]
             ELSE [config |-> config, err |-> NoError]

\* commands.loadConfig: Load, then SetDefaults on what Load returned
loadConfig(configPath, home) ==
    LET l == Load(configPath)
    IN  IF l.err # NoError THEN l
        ELSE [config |-> SetDefaults(l.config, home), err |-> NoError]

\* applyConfigDefaults taking the flags alone
applyConfigDefaults_flagOnly(config, autoClose, autoBlock) ==
    [autoClose |-> autoClose, autoBlock |-> autoBlock]

\* applyConfigDefaults
applyConfigDefaults(config, autoClose, autoBlock) ==
    [autoClose |-> IF ~autoClose /\ config.Actions.ClosePRs THEN TRUE ELSE autoClose,
     autoBlock |-> IF ~autoBlock /\ config.Actions.BlockUsers THEN TRUE ELSE autoBlock]

\* the database sections of the configuration files
DatabaseSections ==
    [database_type : {"sqlite"}, database_path : {"", "/var/prguard.db"},
     database_url : {""}]
    \cup
    [database_type : {"turso"}, database_path : {""},
     database_url : {"", "libsql://prguard"}]
    \cup
    [database_type : {"", "mysql"}, database_path : {"/var/prguard.db"},
     database_url : {""}]

\* the owners of the configuration files: none, an organisation, a user
OwnerSections ==
    {[org |-> "", user |-> ""], [org |-> "acme", user |-> ""],
     [org |-> "", user |-> "maintainer"]}

YamlBools == {"unset", "true", "false"}

\* the configuration files and the environment they are read in
ConfigFiles ==
    {[found |-> TRUE,
      doc |-> [token |-> t, org |-> o.org, user |-> o.user,
               database_type |-> d.database_type, database_path |-> d.database_path,
               database_url |-> d.database_url,
               min_files |-> 0,
               readme_only_block |-> r,
               close_prs |-> c, block_users |-> b, add_spam_label |-> "unset",
               repositories |-> n],
      env |-> [PRGUARD_DATABASE_PATH |-> e]] :
        t \in {"", "ghp_token"}, o \in OwnerSections, d \in DatabaseSections,
        r \in YamlBools, c \in {"unset", "true"}, b \in {"unset", "true"},
        n \in {<<>>, <<R_acme_site>>}, e \in {"", "/env/prguard.db"}}
    \cup {NoConfigFile}

\* the command lines
Invocations ==
    {[NoCommand EXCEPT !.name = "import", !.file = f, !.url = u] :
        f \in {"", "blocklist.json"}, u \in {"", "https://lists/blocklist.json"}}
    \cup
    {[NoCommand EXCEPT !.name = n, !.repo = r, !.autoClose = c, !.autoBlock = b,
                       !.githubBlock = g] :
        n \in {"scan"}, r \in {R_acme_site, R_acmesite},
        c \in BOOLEAN, b \in BOOLEAN, g \in BOOLEAN}
    \cup
    {[NoCommand EXCEPT !.name = "scan-all", !.autoClose = c, !.autoBlock = b,
                       !.githubBlock = g] :
        c \in BOOLEAN, b \in BOOLEAN, g \in BOOLEAN}
    \cup
    {[NoCommand EXCEPT !.name = "close-pr", !.repo = r, !.prNumbers = <<<<"7">>>>] :
        r \in {R_acme_site, R_acmesite}}

\* runImport, lines 203-208: exactly one of --file and --url
runImport_Flags ==
    /\ cpc = "start"
    /\ cmd.name = "import"
    /\ IF cmd.file = "" /\ cmd.url = ""
       THEN cerr' = <<"either --file or --url must be specified">> /\ cpc' = "done"
       ELSE IF cmd.file # "" /\ cmd.url # ""
       THEN cerr' = <<"cannot specify both --file and --url">> /\ cpc' = "done"
       ELSE cerr' = cerr /\ cpc' = "init"
    /\ UNCHANGED <<cmd, cfgFile, conf, flags, log, answer, spamUsers, pending, ci>>
    /\ UNCHANGED <<scanVars, repoVars, storeVars>>

\* runScan going on to initClients whatever the flags
runScan_Flags_unchecked ==
    /\ cpc = "start"
    /\ cmd.name = "scan"
    /\ cpc' = "init"
    /\ UNCHANGED <<cmd, cfgFile, conf, flags, cerr, log, answer, spamUsers, pending, ci>>
    /\ UNCHANGED <<scanVars, repoVars, storeVars>>

\* runScan, lines 309-312: --github-block needs --auto-block
runScan_Flags ==
    /\ cpc = "start"
    /\ cmd.name = "scan"
    /\ IF cmd.githubBlock /\ ~cmd.autoBlock
       THEN cerr' = <<"--github-block requires --auto-block">> /\ cpc' = "done"
       ELSE cerr' = cerr /\ cpc' = "init"
    /\ UNCHANGED <<cmd, cfgFile, conf, flags, log, answer, spamUsers, pending, ci>>
    /\ UNCHANGED <<scanVars, repoVars, storeVars>>

\* runScanAll, lines 49-52: the same check
runScanAll_Flags ==
    /\ cpc = "start"
    /\ cmd.name = "scan-all"
    /\ IF cmd.githubBlock /\ ~cmd.autoBlock
       THEN cerr' = <<"--github-block requires --auto-block">> /\ cpc' = "done"
       ELSE cerr' = cerr /\ cpc' = "init"
    /\ UNCHANGED <<cmd, cfgFile, conf, flags, log, answer, spamUsers, pending, ci>>
    /\ UNCHANGED <<scanVars, repoVars, storeVars>>

\* runClosePR, line 48: no flag to check, initClients comes first
runClosePR_Start ==
    /\ cpc = "start"
    /\ cmd.name = "close-pr"
    /\ cpc' = "init"
    /\ UNCHANGED <<cmd, cfgFile, conf, flags, cerr, log, answer, spamUsers, pending, ci>>
    /\ UNCHANGED <<scanVars, repoVars, storeVars>>

\* initClients, lines 50-53: loadConfig
initClients_loadConfig ==
    /\ cpc = "init"
    /\ \E home \in BOOLEAN :
         LET l == loadConfig(cfgFile, home)
         IN  /\ log' = Append(log, Op("LoadConfig", "", 0, l.err = NoError))
             /\ IF l.err # NoError
                THEN /\ cerr' = <<"failed to load config">> \o l.err
                     /\ cpc' = "done"
                     /\ conf' = conf
                ELSE /\ conf' = l.config
                     /\ cpc' = "db"
                     /\ cerr' = cerr
    /\ UNCHANGED <<cmd, cfgFile, flags, answer, spamUsers, pending, ci>>
    /\ UNCHANGED <<scanVars, repoVars, storeVars>>

\* initClients, lines 55-63: initDatabase opens the database, which can fail;
\* the GitHub client and the manager are then built
initClients_initDatabase ==
    /\ cpc = "db"
    /\ \E ok \in BOOLEAN :
         /\ log' = Append(log, Op("OpenDB", "", 0, ok))
         /\ IF ok
            THEN cpc' = "inited" /\ cerr' = cerr
            ELSE cpc' = "done" /\ cerr' = <<"failed to initialize database">>
    /\ UNCHANGED <<cmd, cfgFile, conf, flags, answer, spamUsers, pending, ci>>
    /\ UNCHANGED <<scanVars, repoVars, storeVars>>

\* runImport, lines 210-216: ready to import
runImport_Ready ==
    /\ cpc = "inited"
    /\ cmd.name = "import"
    /\ cpc' = "ready"
    /\ UNCHANGED <<cmd, cfgFile, conf, flags, cerr, log, answer, spamUsers, pending, ci>>
    /\ UNCHANGED <<scanVars, repoVars, storeVars>>

\* runScan, lines 321-328: the configuration's defaults join the flags, the
\* repository argument is parsed
runScan_Defaults ==
    /\ cpc = "inited"
    /\ cmd.name = "scan"
    /\ LET d == applyConfigDefaults(conf, cmd.autoClose, cmd.autoBlock)
       IN  flags' = [autoClose |-> d.autoClose, autoBlock |-> d.autoBlock,
                     githubBlock |-> cmd.githubBlock]
    /\ IF parseRepo(cmd.repo).err # Nil
       THEN cerr' = <<parseRepo(cmd.repo).err>> /\ cpc' = "done"
       ELSE cerr' = cerr /\ cpc' = "ready"
    /\ UNCHANGED <<cmd, cfgFile, conf, log, answer, spamUsers, pending, ci>>
    /\ UNCHANGED <<scanVars, repoVars, storeVars>>

\* runScanAll, lines 60-66: there must be a repository to scan
runScanAll_Repositories ==
    /\ cpc = "inited"
    /\ cmd.name = "scan-all"
    /\ IF Len(conf.Repositories) = 0
       THEN cerr' = <<"no repositories configured">> /\ cpc' = "done"
       ELSE cerr' = cerr /\ cpc' = "ready"
    /\ UNCHANGED <<cmd, cfgFile, conf, flags, log, answer, spamUsers, pending, ci>>
    /\ UNCHANGED <<scanVars, repoVars, storeVars>>

\* runClosePR, lines 54-63: the repository argument is parsed
runClosePR_ParseRepo ==
    /\ cpc = "inited"
    /\ cmd.name = "close-pr"
    /\ IF parseRepo(cmd.repo).err # Nil
       THEN cerr' = <<parseRepo(cmd.repo).err>> /\ cpc' = "done"
       ELSE cerr' = cerr /\ cpc' = "ready"
    /\ UNCHANGED <<cmd, cfgFile, conf, flags, log, answer, spamUsers, pending, ci>>
    /\ UNCHANGED <<scanVars, repoVars, storeVars>>

----------------------------------------------------------------------------
(* commands: close-pr                                                      *)

DigitValue == [c \in {"0", "1", "2", "3", "4", "5", "6", "7", "8", "9"} |->
                  CASE c = "0" -> 0 [] c = "1" -> 1 [] c = "2" -> 2 [] c = "3" -> 3
                    [] c = "4" -> 4 [] c = "5" -> 5 [] c = "6" -> 6 [] c = "7" -> 7
                    [] c = "8" -> 8 [] c = "9" -> 9]

\* the value of a string of decimal digits
RECURSIVE DecimalValue(_)
DecimalValue(s) ==
    IF s = <<>> THEN 0
    ELSE 10 * DecimalValue(SubSeq(s, 1, Len(s) - 1)) + DigitValue[s[Len(s)]]

\* strconv.Atoi: an optional sign, then one decimal digit or more
Atoi(s) ==
    LET signed == Len(s) > 0 /\ s[1] \in {"+", "-"}
        digits == IF signed THEN Tail(s) ELSE s
    IN  IF digits = <<>> \/ \E i \in 1..Len(digits) : digits[i] \notin DOMAIN DigitValue
        THEN [n |-> 0, err |-> "invalid syntax"]
        ELSE [n |-> IF signed /\ s[1] = "-" THEN 0 - DecimalValue(digits)
                    ELSE DecimalValue(digits),
              err |-> Nil]

MaxArgs == 3

\* the PR numbers as typed on the command line
NumberArgs == {<<"7">>, <<"1", "2">>, <<"-", "3">>, <<"x">>}

\* the configuration files a command got through initClients with
BaseDoc ==
    [token |-> "ghp_token", org |-> "acme", user |-> "",
     database_type |-> "sqlite", database_path |-> "/var/prguard.db",
     database_url |-> "", min_files |-> 0, readme_only_block |-> "true",
     close_prs |-> "unset", block_users |-> "unset", add_spam_label |-> "unset",
     repositories |-> <<>>]

\* the configuration loadConfig returns for a file
ConfigOf(doc) ==
    loadConfig([found |-> TRUE, doc |-> doc, env |-> [PRGUARD_DATABASE_PATH |-> ""]],
               TRUE).config

\* what initClients has done when it returns without error
InitClientsLog == <<Op("LoadConfig", "", 0, TRUE), Op("OpenDB", "", 0, TRUE)>>

\* runClosePR going on to the next PR when a close fails
runClosePR_Step_continue ==
    /\ cpc = "loop"
    /\ cmd.name = "close-pr"
    /\ ci <= Len(cmd.prNumbers)
    /\ LET a == Atoi(cmd.prNumbers[ci])
       IN  IF a.err # Nil
           THEN /\ cerr' = <<"invalid PR number", cmd.prNumbers[ci]>>
                /\ cpc' = "done"
                /\ UNCHANGED <<log, ci>>
           ELSE \E labelOK \in BOOLEAN, closeOK \in BOOLEAN :
                  /\ log' = log
                        \o (IF cmd.addLabel \/ conf.Actions.AddSpamLabel
                            THEN <<Op("AddLabel", "", a.n, labelOK)>> ELSE <<>>)
                        \o <<Op("ClosePullRequest", "", a.n, closeOK)>>
                  /\ ci' = ci + 1
                  /\ UNCHANGED <<cerr, cpc>>
    /\ UNCHANGED <<cmd, cfgFile, conf, flags, answer, spamUsers, pending>>
    /\ UNCHANGED <<scanVars, repoVars, storeVars>>

\* runClosePR, lines 66-87: one PR of the loop
runClosePR_Step ==
    /\ cpc = "loop"
    /\ cmd.name = "close-pr"
    /\ ci <= Len(cmd.prNumbers)
    /\ LET a == Atoi(cmd.prNumbers[ci])
       IN  IF a.err # Nil
           THEN /\ cerr' = <<"invalid PR number", cmd.prNumbers[ci]>>
                /\ cpc' = "done"
                /\ UNCHANGED <<log, ci>>
           ELSE \E labelOK \in BOOLEAN, closeOK \in BOOLEAN :
                  /\ log' = log
                        \o (IF cmd.addLabel \/ conf.Actions.AddSpamLabel
                            THEN <<Op("AddLabel", "", a.n, labelOK)>> ELSE <<>>)
                        \o <<Op("ClosePullRequest", "", a.n, closeOK)>>
                  /\ IF closeOK
                     THEN /\ ci' = ci + 1
                          /\ UNCHANGED <<cerr, cpc>>
                     ELSE /\ cerr' = <<"failed to close PR", a.n>>
                          /\ cpc' = "done"
                          /\ ci' = ci
    /\ UNCHANGED <<cmd, cfgFile, conf, flags, answer, spamUsers, pending>>
    /\ UNCHANGED <<scanVars, repoVars, storeVars>>

\* runClosePR, line 89: every PR was closed
runClosePR_Return ==
    /\ cpc = "loop"
    /\ cmd.name = "close-pr"
    /\ ci > Len(cmd.prNumbers)
    /\ cpc' = "done"
    /\ UNCHANGED <<cmd, cfgFile, conf, flags, cerr, log, answer, spamUsers, pending, ci>>
    /\ UNCHANGED <<scanVars, repoVars, storeVars>>

----------------------------------------------------------------------------
(* commands: scan, from ScanRepository to the automated actions            *)

\* the html_url of a PR of the repository scanned
PullURL(n) == <<"https://github.com/acme/site/pull/", n>>

\* open PRs: number, author, title, files, lines added
OpenPR(n, author, title, files, additions) ==
    [Number |-> n, Author |-> author, Title |-> title, Body |-> T_Empty,
     FilesCount |-> Len(files), Files |-> files, Additions |-> additions,
     Deletions |-> 1, HTMLURL |-> PullURL(n)]

ReadmePR(n, author)  == OpenPR(n, author, T_Fix, <<F_README_md>>, 9)
PhrasePR(n, author)  == OpenPR(n, author, T_BuyNow, <<F_main_go, F_README_md>>, 9)
MinimalPR(n, author) == OpenPR(n, author, T_Fix, <<F_main_go>>, 1)
SoundPR(n, author)   == OpenPR(n, author, T_Fix, <<F_main_go, F_README_md>>, 9)

\* the open PRs of the repositories scanned, in the order GitHub lists them
ScanPRLists ==
    {<<>>,
     <<ReadmePR(1, "alice"), PhrasePR(2, "alice")>>,
     <<PhrasePR(2, "alice"), ReadmePR(1, "alice")>>,
     <<ReadmePR(1, "alice"), ReadmePR(2, "mallory")>>,
     <<MinimalPR(1, "alice"), PhrasePR(2, "alice")>>,
     <<MinimalPR(1, "carol"), ReadmePR(2, "bot")>>,
     <<SoundPR(1, "carol"), PhrasePR(2, "mallory"), ReadmePR(3, "bot")>>}

\* the PR of the repository with this number
PRByNumber(n) ==
    ghClient.prs[CHOOSE i \in 1..Len(ghClient.prs) : ghClient.prs[i].Number = n]

\* spamUserInfo of a spam result
spamUserInfo(r) ==
    [firstPR     |-> r.PR,
     evidenceURL |-> PRByNumber(r.PR).HTMLURL,
     severity    |-> r.Severity,
     reasons     |-> r.Reasons]

\* m with key k set to v
MapSet(m, k, v) == [u \in DOMAIN m \cup {k} |-> IF u = k THEN v ELSE m[u]]

\* collectSpamUsers keeping the last spam PR of each author
RECURSIVE collectLast(_, _)
collectLast(spam, m) ==
    IF spam = <<>> THEN m
    ELSE collectLast(Tail(spam),
                     MapSet(m, PRByNumber(Head(spam).PR).Author, spamUserInfo(Head(spam))))

collectSpamUsers_last(res) == collectLast(res.Spam, NoSpamUsers)

\* the loop of collectSpamUsers: an author enters the map with their first
\* spam PR
RECURSIVE collectFirst(_, _)
collectFirst(spam, m) ==
    IF spam = <<>> THEN m
    ELSE LET author == PRByNumber(Head(spam).PR).Author
         IN  collectFirst(Tail(spam),
                          IF author \in DOMAIN m THEN m
                          ELSE MapSet(m, author, spamUserInfo(Head(spam))))

\* collectSpamUsers
collectSpamUsers(res) == collectFirst(res.Spam, NoSpamUsers)

\* strings.Join: the elements with sep between them
RECURSIVE Join(_, _)
Join(elems, sep) ==
    IF Len(elems) = 0 THEN <<>>
    ELSE IF Len(elems) = 1 THEN <<elems[1]>>
    ELSE <<elems[1], sep>> \o Join(Tail(elems), sep)

WhiteSpace == {" ", "\t", "\n", "\r"}

\* strings.TrimSpace
RECURSIVE TrimSpace(_)
TrimSpace(s) ==
    IF s = <<>> THEN s
    ELSE IF s[1] \in WhiteSpace THEN TrimSpace(Tail(s))
    ELSE IF s[Len(s)] \in WhiteSpace THEN TrimSpace(SubSeq(s, 1, Len(s) - 1))
    ELSE s

\* confirmAction answering yes whatever is typed
confirmAction_always(response) == TRUE

\* confirmAction: the line read, lower-cased and trimmed, is y or yes
confirmAction(response) ==
    LET r == TrimSpace(ToLower(response))
    IN  r = <<"y">> \/ r = <<"y", "e", "s">>

\* the lines an operator types at the prompt; the empty one is an end of file
Answers ==
    {<<"y", "\n">>, <<" ", "Y", "E", "S", "\n">>, <<"n", "\n">>, <<"\n">>, <<>>,
     <<"y", "e", "a", "h", "\n">>}

\* blockOnGitHub: the request made, if any, and its outcome
blockOnGitHub(config, username, ok) ==
    IF config.GitHub.Org # "" THEN <<Op("BlockUserOrg", username, 0, ok)>>
    ELSE IF config.GitHub.User # "" THEN <<Op("BlockUserPersonal", username, 0, ok)>>
    ELSE <<>>

\* runScan, lines 334-337: ScanRepository failed
runScan_ScanFailed ==
    /\ cpc = "scanning"
    /\ rpc = "returned"
    /\ rerr # Nil
    /\ cerr' = <<"scan failed", rerr>>
    /\ cpc' = "done"
    /\ UNCHANGED <<cmd, cfgFile, conf, flags, log, answer, spamUsers, pending, ci>>
    /\ UNCHANGED <<scanVars, repoVars, storeVars>>

\* runScan, lines 339-354: the results are shown, the spam users collected
runScan_collectSpamUsers ==
    /\ cpc = "scanning"
    /\ rpc = "returned"
    /\ rerr = Nil
    /\ spamUsers' = collectSpamUsers(results)
    /\ cpc' = "actions"
    /\ UNCHANGED <<cmd, cfgFile, conf, flags, cerr, log, answer, pending, ci>>
    /\ UNCHANGED <<scanVars, repoVars, storeVars>>

\* executeAutomatedActions, lines 187-189: nothing to do
executeAutomatedActions_Skip ==
    /\ cpc = "actions"
    /\ Len(results.Spam) = 0 \/ (~flags.autoClose /\ ~flags.autoBlock)
    /\ cpc' = "done"
    /\ UNCHANGED <<cmd, cfgFile, conf, flags, cerr, log, answer, spamUsers, pending, ci>>
    /\ UNCHANGED <<scanVars, repoVars, storeVars>>

\* executeAutomatedActions, lines 191-207: the operator is asked
executeAutomatedActions_Confirm ==
    /\ cpc = "actions"
    /\ ~(Len(results.Spam) = 0 \/ (~flags.autoClose /\ ~flags.autoBlock))
    /\ \E response \in Answers :
         /\ answer' = response
         /\ IF ~confirmAction(response)
            THEN cpc' = "done" /\ pending' = pending
            ELSE IF flags.autoBlock
            THEN cpc' = "block" /\ pending' = DOMAIN spamUsers
            ELSE cpc' = "close" /\ pending' = pending
    /\ ci' = 1
    /\ UNCHANGED <<cmd, cfgFile, conf, flags, cerr, log, spamUsers>>
    /\ UNCHANGED <<scanVars, repoVars, storeVars>>

\* executeBlockActions giving up at the first user it cannot block
executeBlockActions_Step_abort ==
    /\ cpc = "block"
    /\ pending # {}
    /\ \E username \in pending, id \in Ids, dbOK \in BOOLEAN, ghOK \in BOOLEAN :
         /\ GetEntry(blocklist, id) = {}
         /\ LET info      == spamUsers[username]
                blockedBy == IF conf.GitHub.User # "" THEN conf.GitHub.User
                             ELSE conf.GitHub.Org
                reason    == <<"Auto-detected spam: ">> \o Join(info.reasons, ", ")
                entry     == NewBlocklistEntry(id, TimeNow, username, reason,
                                               info.evidenceURL, blockedBy,
                                               info.severity, SourceAutoDetected)
                ok        == dbOK /\ AddEntryOK(blocklist, entry)
            IN  /\ blocklist' = IF ok THEN AddEntry(blocklist, entry) ELSE blocklist
                /\ ret' = [op |-> "Block", username |-> username,
                           severity |-> info.severity, source |-> SourceAutoDetected,
                           id |-> IF ok THEN id ELSE "",
                           err |-> IF ok THEN Nil ELSE "failed to add blocklist entry"]
                /\ log' = log \o <<Op("Block", username, 0, ok)>>
                              \o (IF ok /\ flags.githubBlock
                                  THEN blockOnGitHub(conf, username, ghOK) ELSE <<>>)
                /\ pending' = IF ok THEN pending \ {username} ELSE {}
    /\ UNCHANGED <<pc, entries, idx, imported, err, run, payload, file, before,
                   afterFirst, exported>>
    /\ UNCHANGED <<cmd, cfgFile, conf, flags, cpc, cerr, answer, spamUsers, ci>>
    /\ UNCHANGED <<scanVars, repoVars>>

\* executeBlockActions, lines 119-133: one user of the map, in the order the
\* range over the map happens to take; Manager.Block draws a new id
executeBlockActions_Step ==
    /\ cpc = "block"
    /\ pending # {}
    /\ \E username \in pending, id \in Ids, dbOK \in BOOLEAN, ghOK \in BOOLEAN :
         /\ GetEntry(blocklist, id) = {}
         /\ LET info      == spamUsers[username]
                blockedBy == IF conf.GitHub.User # "" THEN conf.GitHub.User
                             ELSE conf.GitHub.Org
                reason    == <<"Auto-detected spam: ">> \o Join(info.reasons, ", ")
                entry     == NewBlocklistEntry(id, TimeNow, username, reason,
                                               info.evidenceURL, blockedBy,
                                               info.severity, SourceAutoDetected)
                ok        == dbOK /\ AddEntryOK(blocklist, entry)
            IN  /\ blocklist' = IF ok THEN AddEntry(blocklist, entry) ELSE blocklist
                /\ ret' = [op |-> "Block", username |-> username,
                           severity |-> info.severity, source |-> SourceAutoDetected,
                           id |-> IF ok THEN id ELSE "",
                           err |-> IF ok THEN Nil ELSE "failed to add blocklist entry"]
                /\ log' = log \o <<Op("Block", username, 0, ok)>>
                              \o (IF ok /\ flags.githubBlock
                                  THEN blockOnGitHub(conf, username, ghOK) ELSE <<>>)
         /\ pending' = pending \ {username}
    /\ UNCHANGED <<pc, entries, idx, imported, err, run, payload, file, before,
                   afterFirst, exported>>
    /\ UNCHANGED <<cmd, cfgFile, conf, flags, cpc, cerr, answer, spamUsers, ci>>
    /\ UNCHANGED <<scanVars, repoVars>>

\* executeAutomatedActions, lines 204-207: the users are done, the PRs follow
executeBlockActions_Done ==
    /\ cpc = "block"
    /\ pending = {}
    /\ cpc' = IF flags.autoClose THEN "close" ELSE "done"
    /\ UNCHANGED <<cmd, cfgFile, conf, flags, cerr, log, answer, spamUsers, pending, ci>>
    /\ UNCHANGED <<scanVars, repoVars, storeVars>>

\* executeCloseActions, lines 162-176: one spam PR
executeCloseActions_Step ==
    /\ cpc = "close"
    /\ ci <= Len(results.Spam)
    /\ \E labelOK \in BOOLEAN, closeOK \in BOOLEAN :
         log' = log
             \o (IF conf.Actions.AddSpamLabel
                 THEN <<Op("AddLabel", "", results.Spam[ci].PR, labelOK)>> ELSE <<>>)
             \o <<Op("ClosePullRequest", "", results.Spam[ci].PR, closeOK)>>
    /\ ci' = ci + 1
    /\ UNCHANGED <<cmd, cfgFile, conf, flags, cpc, cerr, answer, spamUsers, pending>>
    /\ UNCHANGED <<scanVars, repoVars, storeVars>>

\* executeAutomatedActions, lines 209-210: done, nil is returned
executeCloseActions_Done ==
    /\ cpc = "close"
    /\ ci > Len(results.Spam)
    /\ cpc' = "done"
    /\ UNCHANGED <<cmd, cfgFile, conf, flags, cerr, log, answer, spamUsers, pending, ci>>
    /\ UNCHANGED <<scanVars, repoVars, storeVars>>

Init ==
    /\ cfg = [MinFiles |-> DefaultMinFiles, MinLines |-> DefaultMinLines,
              AccountAgeDays |-> DefaultAccountAgeDays, ReadmeOnlyBlock |-> TRUE,
              Whitelist |-> <<>>, SpamPhrases |-> <<>>]
    /\ pr = [Number |-> 1, Author |-> "alice", Title |-> T_Fix, Body |-> T_Empty,
             FilesCount |-> 0, Files |-> <<>>, Additions |-> 0, Deletions |-> 0]
    /\ user = NilUser
    /\ now = Clock
    /\ result = NoResult
    /\ spc = "call"
    /\ evaluated = <<>>
    /\ RepoIdle
    /\ blocklist = {}
    /\ pc = "idle"
    /\ entries = <<>>
    /\ idx = 1
    /\ imported = 0
    /\ err = Nil
    /\ run = 1
    /\ payload = <<>>
    /\ file = NoFile
    /\ before = {}
    /\ afterFirst = NoRun
    /\ exported = {}
    /\ ret = NoRet
    /\ CmdIdle

Next ==
    \/ Block
    \/ Unblock
    \/ Manager_IsBlocked
    \/ Manager_GetByUsername
    \/ ExportJSON
    \/ NewSQLiteDB
    \/ RemoveFile
    \/ ImportJSON_Foreign
    \/ ImportJSON_Exported
    \/ importEntries_Step
    \/ importEntries_Return
    \/ ImportAgain
    \/ ImportDone

Spec == Init /\ [][Next]_vars

\* the manager over a storage whose lookups and writes can fail during an import
FaultyNext ==
    \/ Block
    \/ Unblock
    \/ ImportJSON_Foreign
    \/ importEntries_Step
    \/ importEntries_LookupFails
    \/ importEntries_WriteFails
    \/ importEntries_Return
    \/ ImportDone

SpecFaulty == Init /\ [][FaultyNext]_vars

ScanInit ==
    /\ cfg \in Configs
    /\ pr \in PullRequests
    /\ user \in Users(pr.Author)
    /\ now = Clock
    /\ result = NoResult
    /\ spc = "call"
    /\ evaluated = <<>>
    /\ RepoIdle
    /\ blocklist = {}
    /\ pc = "idle"
    /\ entries = <<>>
    /\ idx = 1
    /\ imported = 0
    /\ err = Nil
    /\ run = 1
    /\ payload = <<>>
    /\ file = NoFile
    /\ before = {}
    /\ afterFirst = NoRun
    /\ exported = {}
    /\ ret = NoRet
    /\ CmdIdle

ScanNext ==
    \/ ScanPR_Begin
    \/ ScanPR_Readme
    \/ ScanPR_AccountAge
    \/ ScanPR_Minimal
    \/ ScanPR_Phrases
    \/ ScanPR_Action

SpecScan == ScanInit /\ [][ScanNext]_vars

\* the blocklist as it is before any command
StoreInit ==
    /\ blocklist = {}
    /\ pc = "idle"
    /\ entries = <<>>
    /\ idx = 1
    /\ imported = 0
    /\ err = Nil
    /\ run = 1
    /\ payload = <<>>
    /\ file = NoFile
    /\ before = {}
    /\ afterFirst = NoRun
    /\ exported = {}
    /\ ret = NoRet

RepoInit ==
    /\ cfg \in RepoConfigs
    /\ ghClient \in [prs : PRLists, fails : BOOLEAN]
    /\ pr = [Number |-> 1, Author |-> "alice", Title |-> T_Fix, Body |-> T_Empty,
             FilesCount |-> 0, Files |-> <<>>, Additions |-> 0, Deletions |-> 0]
    /\ user = NilUser
    /\ now = Clock
    /\ result = NoResult
    /\ spc = "done"
    /\ evaluated = <<>>
    /\ rpc = "call"
    /\ ri = 1
    /\ results = NilResults
    /\ rerr = Nil
    /\ lookups = <<>>
    /\ StoreInit
    /\ CmdIdle

RepoNext ==
    \/ ScanRepository_ListFails
    \/ ScanRepository_List
    \/ ScanRepository_GetUser
    \/ ScanPR_Begin
    \/ ScanPR_Readme
    \/ ScanPR_AccountAge
    \/ ScanPR_Minimal
    \/ ScanPR_Phrases
    \/ ScanPR_Action
    \/ ScanRepository_Collect
    \/ ScanRepository_Return

SpecRepo == RepoInit /\ [][RepoNext]_vars

\* the scanner before any pass
ScannerIdle ==
    /\ cfg = [MinFiles |-> DefaultMinFiles, MinLines |-> DefaultMinLines,
              AccountAgeDays |-> DefaultAccountAgeDays, ReadmeOnlyBlock |-> TRUE,
              Whitelist |-> <<>>, SpamPhrases |-> <<>>]
    /\ pr = [Number |-> 1, Author |-> "alice", Title |-> T_Fix, Body |-> T_Empty,
             FilesCount |-> 0, Files |-> <<>>, Additions |-> 0, Deletions |-> 0]
    /\ user = NilUser
    /\ now = Clock
    /\ result = NoResult
    /\ spc = "done"
    /\ evaluated = <<>>

\* a command line and a configuration file, before the command runs
CmdInit ==
    /\ ScannerIdle
    /\ RepoIdle
    /\ StoreInit
    /\ cmd \in Invocations
    /\ cfgFile \in ConfigFiles
    /\ conf = NoConfig
    /\ flags = NoFlags
    /\ cpc = "start"
    /\ cerr = NoError
    /\ log = <<>>
    /\ answer = ""
    /\ spamUsers = NoSpamUsers
    /\ pending = {}
    /\ ci = 1

\* the start of import, scan, scan-all and close-pr, up to the point where
\* the command has its configuration, its database and its arguments
CmdNext ==
    \/ runImport_Flags
    \/ runScan_Flags
    \/ runScanAll_Flags
    \/ runClosePR_Start
    \/ initClients_loadConfig
    \/ initClients_initDatabase
    \/ runImport_Ready
    \/ runScan_Defaults
    \/ runScanAll_Repositories
    \/ runClosePR_ParseRepo

SpecCmd == CmdInit /\ [][CmdNext]_vars

\* close-pr after initClients and parseRepo: one PR number or more
ClosePRInit ==
    /\ ScannerIdle
    /\ RepoIdle
    /\ StoreInit
    /\ cmd \in {[NoCommand EXCEPT !.name = "close-pr", !.repo = R_acme_site,
                                  !.prNumbers = n, !.addLabel = l] :
                   n \in SeqsUpTo(NumberArgs, MaxArgs) \ {<<>>}, l \in BOOLEAN}
    /\ \E l \in {"unset", "true"} :
         /\ cfgFile = [found |-> TRUE, doc |-> [BaseDoc EXCEPT !.add_spam_label = l],
                       env |-> [PRGUARD_DATABASE_PATH |-> ""]]
         /\ conf = ConfigOf([BaseDoc EXCEPT !.add_spam_label = l])
    /\ flags = NoFlags
    /\ cpc = "loop"
    /\ cerr = NoError
    /\ log = InitClientsLog
    /\ answer = ""
    /\ spamUsers = NoSpamUsers
    /\ pending = {}
    /\ ci = 1

ClosePRNext ==
    \/ runClosePR_Step
    \/ runClosePR_Return

SpecClosePR == ClosePRInit /\ [][ClosePRNext]_vars

\* a user blocked by hand before the scan
BlockedBefore ==
    {NewBlocklistEntry("id0", TimeOther, "alice", "r0", "e0", "admin", SeverityLow,
                       SourceManual)}

\* scan after initClients, applyConfigDefaults and parseRepo, ScanRepository
\* about to be called
ScanCmdInit ==
    /\ cfg = [MinFiles |-> DefaultMinFiles, MinLines |-> DefaultMinLines,
              AccountAgeDays |-> DefaultAccountAgeDays, ReadmeOnlyBlock |-> TRUE,
              Whitelist |-> <<"bot">>, SpamPhrases |-> <<P_xb, P_buy>>]
    /\ ghClient \in [prs : ScanPRLists, fails : BOOLEAN]
    /\ pr = [Number |-> 1, Author |-> "alice", Title |-> T_Fix, Body |-> T_Empty,
             FilesCount |-> 0, Files |-> <<>>, Additions |-> 0, Deletions |-> 0]
    /\ user = NilUser
    /\ now = Clock
    /\ result = NoResult
    /\ spc = "done"
    /\ evaluated = <<>>
    /\ rpc = "call"
    /\ ri = 1
    /\ results = NilResults
    /\ rerr = Nil
    /\ lookups = <<>>
    /\ blocklist = BlockedBefore
    /\ pc = "idle"
    /\ entries = <<>>
    /\ idx = 1
    /\ imported = 0
    /\ err = Nil
    /\ run = 1
    /\ payload = <<>>
    /\ file = NoFile
    /\ before = BlockedBefore
    /\ afterFirst = NoRun
    /\ exported = {}
    /\ ret = NoRet
    /\ \E c \in BOOLEAN, b \in BOOLEAN, g \in BOOLEAN, o \in OwnerSections,
          l \in {"unset", "true"}, d \in {"unset", "true"} :
         LET doc == [BaseDoc EXCEPT !.org = o.org, !.user = o.user,
                                    !.add_spam_label = l, !.close_prs = d]
             eff == applyConfigDefaults(ConfigOf(doc), c, b)
         IN  /\ o.org # "" \/ o.user # ""
             /\ g => b
             /\ cmd = [NoCommand EXCEPT !.name = "scan", !.repo = R_acme_site,
                                        !.autoClose = c, !.autoBlock = b,
                                        !.githubBlock = g]
             /\ cfgFile = [found |-> TRUE, doc |-> doc,
                           env |-> [PRGUARD_DATABASE_PATH |-> ""]]
             /\ conf = ConfigOf(doc)
             /\ flags = [autoClose |-> eff.autoClose, autoBlock |-> eff.autoBlock,
                         githubBlock |-> g]
    /\ cpc = "scanning"
    /\ cerr = NoError
    /\ log = InitClientsLog
    /\ answer = <<>>
    /\ spamUsers = NoSpamUsers
    /\ pending = {}
    /\ ci = 1

ScanCmdNext ==
    \/ ScanRepository_ListFails
    \/ ScanRepository_List
    \/ ScanRepository_GetUser
    \/ ScanPR_Begin
    \/ ScanPR_Readme
    \/ ScanPR_AccountAge
    \/ ScanPR_Minimal
    \/ ScanPR_Phrases
    \/ ScanPR_Action
    \/ ScanRepository_Collect
    \/ ScanRepository_Return
    \/ runScan_ScanFailed
    \/ runScan_collectSpamUsers
    \/ executeAutomatedActions_Skip
    \/ executeAutomatedActions_Confirm
    \/ executeBlockActions_Step
    \/ executeBlockActions_Done
    \/ executeCloseActions_Step
    \/ executeCloseActions_Done

SpecScanCmd == ScanCmdInit /\ [][ScanCmdNext]_vars

----------------------------------------------------------------------------
(* The claims                                                              *)

ReadmeReason == "Single-file README-only edit"

\* the reasons of the result, as a set
ReasonSet == {result.Reasons[k] : k \in 1..Len(result.Reasons)}

\* the total order low(1) < medium(2) < high(3)
Rank == [s \in Severities |->
            IF s = SeverityLow THEN 1 ELSE IF s = SeverityMedium THEN 2 ELSE 3]

\* the iteration of importEntries about to run, if any
AtEntry == pc = "importing" /\ idx <= Len(entries)

\* C1: for a PR whose author is in the whitelist, whatever the author record
\* and the configuration, ScanPR returns IsSpam = false, IsUncertain = false,
\* no reasons and severity low, and has evaluated no rule.
C1_WhitelistedIsClean ==
    (spc = "done" /\ \E k \in 1..Len(cfg.Whitelist) : cfg.Whitelist[k] = pr.Author)
        => /\ result.IsSpam = FALSE
           /\ result.IsUncertain = FALSE
           /\ result.Reasons = <<>>
           /\ result.Severity = "low"
           /\ evaluated = <<>>

\* a whitelisted author whose PR raises the README, new-account, minimal and
\* phrase signals has been scanned
C1_Witness ==
    /\ spc = "done"
    /\ isWhitelisted(pr.Author)
    /\ isSingleFileReadmeEdit(pr)
    /\ user # NilUser /\ isNewAccount(user)
    /\ isMinimalChanges(pr)
    /\ containsSpamPhrases(pr)

\* C2: for a PR of a non-whitelisted author, IsSpam is true exactly when the
\* README-only or the spam-phrase signal fires; the new-account and
\* minimal-changes signals never make it spam, and they set IsUncertain
\* exactly when the PR is not already spam (the README-only rule, evaluated
\* before them, has not fired).
C2_SpamOnlyFromReadmeOrPhrase ==
    (spc = "done" /\ ~isWhitelisted(pr.Author))
        => LET newAccount == user # NilUser /\ isNewAccount(user)
               soft       == newAccount \/ isMinimalChanges(pr)
           IN  /\ result.IsSpam = (isSingleFileReadmeEdit(pr) \/ containsSpamPhrases(pr))
               /\ result.IsUncertain = (soft /\ ~isSingleFileReadmeEdit(pr))

\* a new account with minimal changes and neither hard signal was scanned:
\* uncertain, not spam
C2_Witness ==
    /\ spc = "done"
    /\ ~isWhitelisted(pr.Author)
    /\ user # NilUser /\ isNewAccount(user)
    /\ isMinimalChanges(pr)
    /\ ~isSingleFileReadmeEdit(pr)
    /\ ~containsSpamPhrases(pr)
    /\ result.IsUncertain /\ ~result.IsSpam

\* C3: an iteration of importEntries on an entry whose id is stored and whose
\* severity is lower than or equal to the stored one leaves the table and the
\* count as they are and goes on to the next entry without an error.
C3_LowerOrEqualIgnored ==
    [][ (/\ AtEntry
         /\ entries[idx].Severity \in Severities
         /\ \E r \in blocklist : /\ r.ID = entries[idx].ID
                                 /\ Rank[entries[idx].Severity] <= Rank[r.Severity])
        => /\ blocklist' = blocklist
           /\ imported' = imported
           /\ err' = Nil
           /\ pc' = "importing"
           /\ idx' = idx + 1 ]_vars

\* the first entry of an import matched a stored high entry with severity low
\* and was passed over
C3_Witness ==
    /\ pc = "importing" /\ idx = 2 /\ imported = 0
    /\ blocklist = before
    /\ \E r \in before : /\ r.ID = payload[1].ID
                         /\ r.Severity = SeverityHigh
                         /\ r.Reason # payload[1].Reason
                         /\ payload[1].Severity = SeverityLow

\* C4: an iteration of importEntries on an entry whose id is stored and whose
\* severity is strictly higher replaces the stored row by one with the
\* incoming reason, evidence URL, severity and metadata and the stored id,
\* username, timestamp, blockedBy and source; no row is added; the count
\* grows by one.
C4_HigherSeverityOverwrites ==
    [][ \A r \in blocklist :
          (/\ AtEntry
           /\ r.ID = entries[idx].ID
           /\ entries[idx].Severity \in Severities
           /\ Rank[entries[idx].Severity] > Rank[r.Severity])
          => /\ blocklist' = (blocklist \ {r}) \cup
                   {[ID          |-> r.ID,
                     Username    |-> r.Username,
                     Reason      |-> entries[idx].Reason,
                     EvidenceURL |-> entries[idx].EvidenceURL,
                     Timestamp   |-> r.Timestamp,
                     BlockedBy   |-> r.BlockedBy,
                     Severity    |-> entries[idx].Severity,
                     Source      |-> r.Source,
                     Metadata    |-> entries[idx].Metadata]}
             /\ Cardinality(blocklist') = Cardinality(blocklist)
             /\ imported' = imported + 1 ]_vars

\* the first entry of an import raised a stored low entry to high: the row
\* carries the incoming reason and metadata with the stored user and time
C4_Witness ==
    /\ pc = "importing" /\ idx = 2 /\ imported = 1
    /\ \E r \in before, u \in blocklist :
         /\ r.ID = payload[1].ID /\ u.ID = r.ID
         /\ r.Severity = SeverityLow /\ u.Severity = SeverityHigh
         /\ r.Reason = "r1" /\ u.Reason = "r2"
         /\ r.Metadata = "{}" /\ u.Metadata = "m2"
         /\ u.Username = "alice" /\ u.Timestamp = TimeNow
         /\ payload[1].Username = "mallory" /\ payload[1].Timestamp = TimeOther

C6_ImportIdempotent ==
    (pc = "returned" /\ run = 2)
        => /\ imported = 0
           /\ blocklist = afterFirst.table

\* a batch that repeats an id, inserted and then raised by the first run
\* (count 2), has been imported a second time
C6_Witness ==
    /\ pc = "returned" /\ run = 2
    /\ Len(payload) = 2
    /\ payload[1].ID = payload[2].ID
    /\ afterFirst.count = 2

\* C7: when the file ExportJSON wrote has been imported into an empty table,
\* the table holds exactly the exported entries, each with source "imported"
\* and every other field as exported, and the count is their number.
C7_ExportImportRoundTrip ==
    (pc = "returned" /\ file.exists /\ before = {} /\ run = 1)
        => /\ blocklist = {[e EXCEPT !.Source = "imported"] : e \in exported}
           /\ imported = Cardinality(exported)
           /\ err = Nil

\* an export of two entries, one blocked by hand and one raised by an import,
\* has been imported into an empty table
C7_Witness ==
    /\ pc = "returned" /\ file.exists /\ before = {} /\ run = 1
    /\ Cardinality(exported) = 2
    /\ \E e \in exported : e.Source = SourceAutoDetected /\ e.Reason = "r2"
    /\ \E e \in exported : e.Source = SourceImported
    /\ imported = 2

\* C8: in every result of ScanPR, IsSpam and IsUncertain are not both true.
C8_SpamExcludesUncertain ==
    spc = "done" => ~(result.IsSpam /\ result.IsUncertain)

\* C9: for every PR and author, whitelisted or not, the recommended action of
\* the result follows from its flags: block when spam, manual review when
\* uncertain and not spam, no action when neither.
C9_ActionFromFlags ==
    spc = "done"
        => result.RecommendAction =
              (IF result.IsSpam THEN "Block user and close PR"
               ELSE IF result.IsUncertain THEN "Manual review recommended"
               ELSE "No action needed")

----------------------------------------------------------------------------
(* The scanner's signals and its result (C11 - C14)                        *)

MinimalReason == "Minimal changes (below threshold)"
PhraseReason  == "Contains spam phrases"
AccountReasons == {"Account created recently",
                   "Account created recently (suspicious but not definitive)"}

\* the signal a reason reports
SignalOf(reason) ==
    IF reason = ReadmeReason THEN "readme"
    ELSE IF reason \in AccountReasons THEN "account"
    ELSE IF reason = MinimalReason THEN "minimal"
    ELSE IF reason = PhraseReason THEN "phrases"
    ELSE "other"

\* the rule named s was evaluated and its signal was true
Fired(s) ==
    /\ \E k \in 1..Len(evaluated) : evaluated[k] = s
    /\ \/ s = "readme" /\ isSingleFileReadmeEdit(pr)
       \/ s = "account" /\ user # NilUser /\ isNewAccount(user)
       \/ s = "minimal" /\ isMinimalChanges(pr)
       \/ s = "phrases" /\ containsSpamPhrases(pr)

\* C11: once the minimal-changes rule of a pass has run, its reason is in the
\* result if and only if the PR changes fewer files than minFiles or fewer
\* lines (additions + deletions) than minLines; either miss alone suffices,
\* and a PR of exactly 2 files and 10 lines under the defaults 2 / 10 is not
\* minimal.
C11_MinimalIffEitherBelow ==
    (\E k \in 1..Len(evaluated) : evaluated[k] = "minimal") =>
        LET total == pr.Additions + pr.Deletions
        IN  /\ (MinimalReason \in ReasonSet) <=>
                   (pr.FilesCount < cfg.MinFiles \/ total < cfg.MinLines)
            /\ (/\ cfg.MinFiles = DefaultMinFiles /\ cfg.MinLines = DefaultMinLines
                /\ pr.FilesCount = DefaultMinFiles /\ total = DefaultMinLines)
                   => MinimalReason \notin ReasonSet

\* A pass over a PR of 2 files (not below minFiles = 2) and fewer than 10
\* lines has reported minimal changes.
C11_Witness ==
    /\ spc = "done"
    /\ cfg.MinFiles = DefaultMinFiles /\ pr.FilesCount = DefaultMinFiles
    /\ pr.Additions + pr.Deletions < cfg.MinLines
    /\ MinimalReason \in ReasonSet

\* C12: once the account-age rule of a pass has run, the new-account reason is
\* in the result if and only if there is an author record and the account's
\* age (now - createdAt) is strictly less than accountAgeDays days; an age
\* equal to the threshold is not new.
C12_NewAccountIffYounger ==
    (\E k \in 1..Len(evaluated) : evaluated[k] = "account") =>
        ((ReasonSet \cap AccountReasons # {}) <=>
            (/\ user # NilUser
             /\ now - user.CreatedAt < cfg.AccountAgeDays * HoursPerDay))

\* C13: within one pass the severity starts at low and no step lowers it, and
\* the pass returns severity high exactly when the result is spam, low
\* otherwise.
C13_SeverityOnlyRaised ==
    [][/\ spc = "call" => result'.Severity = SeverityLow
       /\ spc # "call" => Rank[result'.Severity] >= Rank[result.Severity]
       /\ spc' = "done" =>
              result'.Severity = IF result'.IsSpam THEN SeverityHigh ELSE SeverityLow]_vars

\* A pass in which the README rule and the spam-phrase rule both fired has
\* returned severity high.
C13_Witness ==
    /\ spc = "done"
    /\ ReadmeReason \in ReasonSet /\ PhraseReason \in ReasonSet
    /\ result.Severity = SeverityHigh

\* C14: the reasons of a returned result are one reason per signal that fired,
\* in the order README-only, new-account, minimal-changes, spam-phrase, so
\* their number is the number of signals that fired; there are no reasons
\* exactly when the PR is clean (neither spam nor uncertain).
C14_ReasonsInRuleOrder ==
    spc = "done" =>
        /\ [k \in 1..Len(result.Reasons) |-> SignalOf(result.Reasons[k])]
               = SelectSeq(<<"readme", "account", "minimal", "phrases">>, Fired)
        /\ (result.Reasons = <<>>) <=> (~result.IsSpam /\ ~result.IsUncertain)

\* A pass in which all four signals fired has returned four reasons.
C14_Witness ==
    /\ spc = "done"
    /\ Len(result.Reasons) = 4
    /\ \A s \in {"readme", "account", "minimal", "phrases"} : Fired(s)

----------------------------------------------------------------------------
(* ScanRepository (C15, C16)                                               *)

\* the results of the three collections, as one sequence
AllResults == results.Spam \o results.Uncertain \o results.Clean

\* the PR numbers of a collection, in its order
NumbersOf(coll) == [k \in 1..Len(coll) |-> coll[k].PR]

\* the PR numbers in the order the data source returned them
SourceNumbers == [k \in 1..Len(ghClient.prs) |-> ghClient.prs[k].Number]

\* the numbers of SourceNumbers that a collection holds, in source order
InSourceOrder(coll) ==
    LET held == {coll[k].PR : k \in 1..Len(coll)}
        Held(n) == n \in held
    IN  SelectSeq(SourceNumbers, Held)

\* C15: when ScanRepository returns its results, every PR the data source
\* returned is in exactly one of Spam, Uncertain and Clean: in Spam if its
\* result is spam, else in Uncertain if it is uncertain, else in Clean; Total
\* is the number of PRs returned and the sum of the three lengths; and each
\* collection lists its PRs in the order the data source returned them.
C15_Partition ==
    (rpc = "returned" /\ results # NilResults) =>
        /\ results.Total = Len(ghClient.prs)
        /\ results.Total = Len(results.Spam) + Len(results.Uncertain) + Len(results.Clean)
        /\ \A k \in 1..Len(ghClient.prs) :
               Cardinality({j \in 1..Len(AllResults) :
                               AllResults[j].PR = ghClient.prs[k].Number}) = 1
        /\ \A k \in 1..Len(results.Spam) : results.Spam[k].IsSpam
        /\ \A k \in 1..Len(results.Uncertain) :
               ~results.Uncertain[k].IsSpam /\ results.Uncertain[k].IsUncertain
        /\ \A k \in 1..Len(results.Clean) :
               ~results.Clean[k].IsSpam /\ ~results.Clean[k].IsUncertain
        /\ NumbersOf(results.Spam) = InSourceOrder(results.Spam)
        /\ NumbersOf(results.Uncertain) = InSourceOrder(results.Uncertain)
        /\ NumbersOf(results.Clean) = InSourceOrder(results.Clean)

\* A scan of two PRs, returned as PR 2 then PR 1, has put both in Spam in that
\* order, the first of them carrying the uncertain flag as well.
C15_Witness ==
    /\ rpc = "returned"
    /\ results # NilResults
    /\ SourceNumbers = <<2, 1>>
    /\ NumbersOf(results.Spam) = <<2, 1>>
    /\ results.Spam[1].IsUncertain

\* the result ScanRepository filed for PR number n
ResultFor(n) == CHOOSE r \in {AllResults[j] : j \in 1..Len(AllResults)} : r.PR = n

\* C16: ScanRepository returns an error, and no results, exactly when listing
\* the PRs failed. Otherwise GetUser has been called once per PR, in order,
\* and a PR whose lookup failed is classified all the same: its result has no
\* new-account reason and carries the README, minimal-changes and spam-phrase
\* reasons its other checks call for.
C16_LookupFailureTolerated ==
    rpc = "returned" =>
        /\ ghClient.fails => (rerr # Nil /\ results = NilResults)
        /\ ~ghClient.fails =>
              /\ rerr = Nil
              /\ results # NilResults
              /\ [k \in 1..Len(lookups) |-> lookups[k].login]
                     = [k \in 1..Len(ghClient.prs) |-> ghClient.prs[k].Author]
              /\ \A k \in 1..Len(ghClient.prs) :
                     lookups[k].failed =>
                        LET p  == ghClient.prs[k]
                            rs == {ResultFor(p.Number).Reasons[j] :
                                      j \in 1..Len(ResultFor(p.Number).Reasons)}
                        IN  /\ \E j \in 1..Len(AllResults) : AllResults[j].PR = p.Number
                            /\ rs \cap AccountReasons = {}
                            /\ ~isWhitelisted(p.Author) =>
                                  /\ (ReadmeReason \in rs) <=> isSingleFileReadmeEdit(p)
                                  /\ (MinimalReason \in rs) <=> isMinimalChanges(p)
                                  /\ (PhraseReason \in rs) <=> containsSpamPhrases(p)

\* A scan of two PRs has returned without error after the first author
\* lookup failed and the second succeeded: the first PR is filed with the
\* minimal-changes reason, the second with a new-account reason.
C16_Witness ==
    /\ rpc = "returned"
    /\ rerr = Nil
    /\ Len(lookups) = 2
    /\ lookups[1].failed /\ ~lookups[2].failed
    /\ \E j \in 1..Len(ResultFor(ghClient.prs[1].Number).Reasons) :
           ResultFor(ghClient.prs[1].Number).Reasons[j] = MinimalReason
    /\ \E j \in 1..Len(ResultFor(ghClient.prs[2].Number).Reasons) :
           ResultFor(ghClient.prs[2].Number).Reasons[j] \in AccountReasons

----------------------------------------------------------------------------
(* The blocklist store (C17 - C20)                                         *)

ErrLookup == "failed to check for existing entry"
ErrUpdate == "failed to update entry"
ErrAdd    == "failed to add entry"

\* C17 as stated: the lookup error is the only error an import returns (a
\* failed insert or update being passed over), and it ends the import.
C17_Original ==
    /\ err \in {Nil, ErrLookup}
    /\ err = ErrLookup => pc = "returned"

\* C17: an iteration of importEntries that meets a storage failure, be it of
\* the lookup, of the insert or of the update, ends the import there: the
\* error is returned with the count so far, the table and the count are left
\* as the earlier entries made them and no later entry is processed. An
\* iteration without error goes on to the next entry. An insert that must fail
\* (a new id with a severity outside the enumeration) is never passed over.
C17_StorageErrorsAbort ==
    [][AtEntry =>
          /\ err' # Nil =>
                /\ err' \in {ErrLookup, ErrUpdate, ErrAdd}
                /\ pc' = "returned"
                /\ blocklist' = blocklist /\ imported' = imported /\ idx' = idx
          /\ err' = Nil => (pc' = "importing" /\ idx' = idx + 1)
          /\ (/\ GetEntry(blocklist, entries[idx].ID) = {}
              /\ entries[idx].Severity \notin Severities)
                => (err' \in {ErrLookup, ErrAdd} /\ pc' = "returned")]_vars

\* An import has returned the lookup error at its second entry: the first
\* entry stays written and counted.
C17_Witness ==
    /\ pc = "returned"
    /\ err = ErrLookup
    /\ idx = 2 /\ Len(entries) = 2
    /\ imported = 1
    /\ blocklist # before

\* C18: whatever commands have run, every stored entry has a severity in
\* {low, medium, high} and a source in {manual, imported, auto-detected}; a
\* Block carrying another severity or source returns an error and leaves the
\* table as it was, and so does the import of a new entry carrying another
\* severity.
C18_EnumerationsEnforced ==
    [][/\ \A r \in blocklist' : r.Severity \in Severities /\ r.Source \in Sources
       /\ (/\ ret'.op = "Block"
           /\ (ret'.severity \notin Severities \/ ret'.source \notin Sources))
             => (ret'.err # Nil /\ blocklist' = blocklist)
       /\ (/\ AtEntry
           /\ GetEntry(blocklist, entries[idx].ID) = {}
           /\ entries[idx].Severity \notin Severities)
             => (err' # Nil /\ blocklist' = blocklist)]_vars

\* A Block with a source outside the enumeration has returned an error over
\* a table that holds an entry.
C18_Witness ==
    /\ ret.op = "Block"
    /\ ret.source \notin Sources /\ ret.severity \in Severities
    /\ ret.err # Nil
    /\ blocklist # {}

\* C19: Unblock(u) succeeds and leaves exactly the entries of the other
\* usernames, each unchanged (so nothing changes when u has no entry); an
\* IsBlocked(u) right after it answers false and a GetByUsername(u) right after
\* it returns no entry.
C19_UnblockRemovesAll ==
    [][/\ ret'.op = "Unblock" =>
             /\ ret'.err = Nil
             /\ blocklist' = {r \in blocklist : r.Username # ret'.username}
             /\ (\A r \in blocklist : r.Username # ret'.username)
                    => blocklist' = blocklist
       /\ (ret.op = "Unblock" /\ ret'.op = "IsBlocked" /\ ret'.username = ret.username)
             => ~ret'.blocked
       /\ (ret.op = "Unblock" /\ ret'.op = "GetByUsername" /\ ret'.username = ret.username)
             => ret'.rows = {}]_vars

\* An Unblock of mallory has removed mallory's one entry and left the entry
\* of alice.
C19_Witness ==
    /\ ret.op = "Unblock"
    /\ ret.username = "mallory"
    /\ ret.removed = 1
    /\ \E r \in blocklist : r.Username = "alice"

\* C20: a Block that succeeds adds one entry under an id no stored entry has
\* and touches no stored entry, so the table and the entries of that username
\* grow by one each time; a Block with a valid severity and source succeeds;
\* IsBlocked(u) answers true exactly when some stored entry has username u.
C20_BlockAlwaysInserts ==
    [][/\ (ret'.op = "Block" /\ <<blocklist, ret>>' # <<blocklist, ret>>) =>
             /\ (ret'.severity \in Severities /\ ret'.source \in Sources)
                    => ret'.err = Nil
             /\ ret'.err = Nil =>
                   /\ ret'.id \notin {r.ID : r \in blocklist}
                   /\ blocklist \subseteq blocklist'
                   /\ Cardinality(blocklist') = Cardinality(blocklist) + 1
                   /\ Cardinality({r \in blocklist' : r.Username = ret'.username})
                        = Cardinality({r \in blocklist : r.Username = ret'.username}) + 1
       /\ ret'.op = "IsBlocked" =>
             (ret'.blocked <=> \E r \in blocklist' : r.Username = ret'.username)]_vars

\* A second Block of alice has succeeded: the table holds two entries of
\* alice under different ids.
C20_Witness ==
    /\ ret.op = "Block"
    /\ ret.err = Nil
    /\ Cardinality({r \in blocklist : r.Username = "alice" /\ r.Reason = "r1"}) = 2

----------------------------------------------------------------------------
(* What an import preserves (C29, C30)                                     *)

\* the ids of a sequence of entries that the table held no entry for
NewIds(table, seq) == {seq[k].ID : k \in 1..Len(seq)} \ {r.ID : r \in table}

\* C29 as stated: whenever an import has returned, the table has grown by the
\* number of distinct new ids of its batch.
C29_Original ==
    pc = "returned" =>
        Cardinality(blocklist) = Cardinality(before) + Cardinality(NewIds(before, payload))

\* C29: a step of an import keeps every stored entry: after it the table
\* holds an entry of the same id, username, timestamp, blockedBy and source
\* whose severity ranks at least as high, and no two entries share an id. An
\* import that returns without error has grown the table by the number of
\* distinct new ids of its batch; one that returns an error at an entry has
\* grown it by the number of distinct new ids among the entries before that
\* one.
C29_ImportPreserves ==
    [][pc = "importing" =>
          /\ \A r \in blocklist :
                \E q \in blocklist' :
                    /\ q.ID = r.ID /\ q.Username = r.Username
                    /\ q.Timestamp = r.Timestamp /\ q.BlockedBy = r.BlockedBy
                    /\ q.Source = r.Source
                    /\ Rank[q.Severity] >= Rank[r.Severity]
          /\ Cardinality({r.ID : r \in blocklist'}) = Cardinality(blocklist')
          /\ pc' = "returned" =>
                LET done == IF err' = Nil THEN payload
                            ELSE SubSeq(payload, 1, idx' - 1)
                IN  Cardinality(blocklist') =
                        Cardinality(before) + Cardinality(NewIds(before, done))]_vars

\* An import of two entries of one new id, the second of higher severity, has
\* returned without error: the table has one entry more and the count is 2.
C29_Witness ==
    /\ pc = "returned"
    /\ err = Nil
    /\ Len(payload) = 2
    /\ payload[1].ID = payload[2].ID
    /\ NewIds(before, payload) = {payload[1].ID}
    /\ Cardinality(blocklist) = Cardinality(before) + 1
    /\ imported = 2

\* what the entries of seq, imported one after the other without failure,
\* make of a table, and how many of them were inserted or updated
RECURSIVE Reconcile(_, _)
Reconcile(table, seq) ==
    IF seq = <<>> THEN [table |-> table, count |-> 0]
    ELSE LET e     == Head(seq)
             held  == {r \in table : r.ID = e.ID}
             raise == /\ held # {}
                      /\ e.Severity \in Severities
                      /\ \A r \in held : Rank[e.Severity] > Rank[r.Severity]
             t1    == IF held = {} THEN table \cup {[e EXCEPT !.Source = SourceImported]}
                      ELSE IF raise
                      THEN {IF r.ID = e.ID
                            THEN [r EXCEPT !.Reason = e.Reason,
                                           !.EvidenceURL = e.EvidenceURL,
                                           !.Severity = e.Severity,
                                           !.Metadata = e.Metadata]
                            ELSE r : r \in table}
                      ELSE table
             c1    == IF held = {} \/ raise THEN 1 ELSE 0
             rest  == Reconcile(t1, Tail(seq))
         IN  [table |-> rest.table, count |-> c1 + rest.count]

\* C30: when an import has returned an error at its k-th entry, the table is
\* what the entries before k made of it (nothing is undone, and no entry
\* after k has been written), and the count returned is the number of those
\* entries that were inserted or updated.
C30_NoRollback ==
    (pc = "returned" /\ err # Nil) =>
        LET sofar == Reconcile(before, SubSeq(payload, 1, idx - 1))
        IN  /\ idx <= Len(payload)
            /\ blocklist = sofar.table
            /\ imported = sofar.count

\* An import of two entries has returned the insert's error at the second:
\* the first entry stays written and the count is 1.
C30_Witness ==
    /\ pc = "returned"
    /\ err = ErrAdd
    /\ idx = 2 /\ Len(payload) = 2
    /\ imported = 1
    /\ Cardinality(blocklist) = Cardinality(before) + 1

\* the flags of the command line contradict each other
ConflictingFlags(c) ==
    \/ c.name = "import" /\ (c.file = "") = (c.url = "")
    \/ c.name \in {"scan", "scan-all"} /\ c.githubBlock /\ ~c.autoBlock

\* C21: import with neither or both of --file and --url, and scan or scan-all
\* with --github-block but without --auto-block, return an error before the
\* configuration is loaded, the database is opened, or any GitHub or blocklist
\* operation is made.
C21_FlagsBeforeSideEffects ==
    ConflictingFlags(cmd) =>
        /\ log = <<>>
        /\ conf = NoConfig
        /\ blocklist = {}
        /\ cpc \in {"start", "done"}
        /\ cpc = "done" => cerr # NoError

C21_Witness ==
    /\ cpc = "done"
    /\ cmd.name = "scan-all"
    /\ cmd.githubBlock /\ ~cmd.autoBlock
    /\ cerr = <<"--github-block requires --auto-block">>
    /\ log = <<>>

C24_ReadmeOnlyBlockDefault ==
    (conf # NoConfig /\ cfgFile.doc.readme_only_block = "unset") =>
        conf.Filters.ReadmeOnlyBlock

\* C25: loading a configuration with database.type sqlite and no database.path
\* (the rest of it valid, PRGUARD_DATABASE_PATH not set) succeeds and uses the
\* default path ~/.local/prguard/prguard.db.
C25_SqliteDefaultPath ==
    (/\ Len(log) >= 1
     /\ cfgFile # NoConfigFile
     /\ cfgFile.doc.database_type = "sqlite"
     /\ cfgFile.doc.database_path = ""
     /\ cfgFile.env.PRGUARD_DATABASE_PATH = ""
     /\ cfgFile.doc.token # ""
     /\ (cfgFile.doc.org # "" \/ cfgFile.doc.user # "")) =>
        /\ conf # NoConfig
        /\ conf.Database.Path = DefaultDatabasePath

IsClose(e) == e.op = "ClosePullRequest"
IsGitHubOp(e) == e.op \in {"AddLabel", "ClosePullRequest", "BlockUserOrg", "BlockUserPersonal"}

\* C22: close-pr takes the PR numbers in argument order; a label that cannot
\* be added does not keep the PR from being closed; the first PR whose close
\* fails ends the command with an error naming that PR, the PRs before it
\* closed and the PRs after it untouched.
C22_CloseInArgumentOrder ==
    LET ops    == SelectSeq(log, IsGitHubOp)
        closes == SelectSeq(log, IsClose)
        n      == Len(closes)
    IN  /\ n <= Len(cmd.prNumbers)
        /\ \A k \in 1..n : closes[k].pr = Atoi(cmd.prNumbers[k]).n
        /\ \A k \in 1..(n - 1) : closes[k].ok
        /\ \A i \in 1..Len(ops) :
              ops[i].op = "AddLabel" =>
                  /\ i < Len(ops)
                  /\ ops[i + 1].op = "ClosePullRequest"
                  /\ ops[i + 1].pr = ops[i].pr
        /\ (n > 0 /\ ~closes[n].ok) =>
              /\ cpc = "done"
              /\ cerr = <<"failed to close PR", closes[n].pr>>
        /\ (cpc = "done" /\ cerr = NoError) =>
              /\ n = Len(cmd.prNumbers)
              /\ \A k \in 1..n : closes[k].ok

C22_Witness ==
    /\ cpc = "done"
    /\ Len(cmd.prNumbers) = 3
    /\ cerr = <<"failed to close PR", 12>>
    /\ SelectSeq(log, IsGitHubOp) =
          <<Op("AddLabel", "", 7, FALSE), Op("ClosePullRequest", "", 7, TRUE),
            Op("AddLabel", "", 12, TRUE), Op("ClosePullRequest", "", 12, FALSE)>>

IsBlock(e)       == e.op = "Block"
IsGitHubBlock(e) == e.op \in {"BlockUserOrg", "BlockUserPersonal"}
IsLabelOrClose(e) == e.op \in {"AddLabel", "ClosePullRequest"}
IsAction(e)      == IsBlock(e) \/ IsGitHubBlock(e) \/ IsLabelOrClose(e)

\* the numbers of the PRs of a collection
NumbersIn(collection) == {collection[i].PR : i \in 1..Len(collection)}
\* the authors of the PRs of a collection
AuthorsIn(collection) == {PRByNumber(n).Author : n \in NumbersIn(collection)}
\* the first result of the Spam collection whose PR this author opened
FirstSpamOf(author) ==
    results.Spam[CHOOSE i \in 1..Len(results.Spam) :
                    /\ PRByNumber(results.Spam[i].PR).Author = author
                    /\ \A j \in 1..(i - 1) : PRByNumber(results.Spam[j].PR).Author # author]

\* C26: in a scan with automated actions, only PRs of the Spam collection are
\* labelled or closed and only authors of a spam PR are blocked: no uncertain,
\* clean or whitelisted author's PR is closed; each spam author is blocked at
\* most once in the scan, with source auto-detected and the evidence URL,
\* severity and reasons of their first spam PR in scan order.
C26_OnlySpamActedOn ==
    (cpc \in {"block", "close", "done"} /\ results # NilResults) =>
        /\ \A i \in 1..Len(log) :
              /\ IsLabelOrClose(log[i]) =>
                    /\ log[i].pr \in NumbersIn(results.Spam)
                    /\ log[i].pr \notin NumbersIn(results.Uncertain) \cup NumbersIn(results.Clean)
                    /\ ~isWhitelisted(PRByNumber(log[i].pr).Author)
              /\ (IsBlock(log[i]) \/ IsGitHubBlock(log[i])) =>
                    /\ log[i].user \in AuthorsIn(results.Spam)
                    /\ ~isWhitelisted(log[i].user)
              /\ IsBlock(log[i]) =>
                    \A j \in 1..Len(log) : (IsBlock(log[j]) /\ log[j].user = log[i].user) => j = i
        /\ \A row \in blocklist \ before :
              /\ row.Username \in AuthorsIn(results.Spam)
              /\ row.Source = SourceAutoDetected
              /\ row.EvidenceURL = PRByNumber(FirstSpamOf(row.Username).PR).HTMLURL
              /\ row.Severity = FirstSpamOf(row.Username).Severity
              /\ row.Reason = <<"Auto-detected spam: ">>
                                  \o Join(FirstSpamOf(row.Username).Reasons, ", ")
        /\ \A row \in blocklist \ before, other \in blocklist \ before :
              row.Username = other.Username => row = other

C26_Witness ==
    /\ cpc = "done"
    /\ results # NilResults
    /\ ghClient.prs = <<PhrasePR(2, "alice"), ReadmePR(1, "alice")>>
    /\ Len(results.Spam) = 2
    /\ \E row \in blocklist \ before :
          /\ row.Username = "alice"
          /\ row.EvidenceURL = PullURL(2)
          /\ row.Reason = <<"Auto-detected spam: ", "Contains spam phrases">>
    /\ Len(SelectSeq(log, IsBlock)) = 1
    /\ Len(SelectSeq(log, IsClose)) = 2

C28_BlocksThenCloses ==
    LET acts == SelectSeq(log, IsAction)
    IN  /\ \A i \in 1..Len(acts), j \in 1..Len(acts) :
              (IsLabelOrClose(acts[i]) /\ (IsBlock(acts[j]) \/ IsGitHubBlock(acts[j]))) => j < i
        /\ \A i \in 1..Len(acts) :
              IsGitHubBlock(acts[i]) =>
                  /\ i > 1
                  /\ IsBlock(acts[i - 1])
                  /\ acts[i - 1].user = acts[i].user
                  /\ acts[i - 1].ok
        /\ (cpc = "done" /\ rerr = Nil) => cerr = NoError
        /\ (cpc = "done" /\ confirmAction(answer) /\ flags.autoBlock) =>
              {e.user : e \in {acts[i] : i \in {k \in 1..Len(acts) : IsBlock(acts[k])}}}
                  = AuthorsIn(results.Spam)
        /\ (cpc = "done" /\ confirmAction(answer) /\ flags.autoClose) =>
              /\ Len(SelectSeq(acts, IsClose)) = Len(results.Spam)
              /\ \A k \in 1..Len(results.Spam) :
                    SelectSeq(acts, IsClose)[k].pr = results.Spam[k].PR
        /\ (cpc = "done" /\ confirmAction(answer) /\ flags.autoClose
                /\ conf.Actions.AddSpamLabel) =>
              \A k \in 1..Len(results.Spam) :
                  \E i \in 1..Len(acts) : acts[i].op = "AddLabel" /\ acts[i].pr = results.Spam[k].PR

C28_Witness ==
    /\ cpc = "done"
    /\ cerr = NoError
    /\ SelectSeq(log, IsAction) =
          <<Op("Block", "mallory", 0, FALSE),
            Op("Block", "alice", 0, TRUE), Op("BlockUserOrg", "alice", 0, FALSE),
            Op("AddLabel", "", 1, FALSE), Op("ClosePullRequest", "", 1, FALSE),
            Op("AddLabel", "", 2, TRUE), Op("ClosePullRequest", "", 2, TRUE)>>

====
